---- MODULE Spec2Model ----
(***************************************************************************)
(* Verification model of the sudoku_solver workspace: the Sudoku Board     *)
(* (bitmask cells, assign / eliminate cascade, naked and hidden singles,   *)
(* deduce), the generic SolutionIterator and true-candidates strategies,   *)
(* the streaming solution counter, and the listener's count / cancel       *)
(* request handling.                                                       *)
(*                                                                         *)
(* A cell mask (Bits) is modelled as the set of digits whose bit is set;   *)
(* `&`, `|`, `& !` and count_ones become \cap, \cup, \ and Cardinality.    *)
(* The solved_digits bit array is the set of solved cell indices.          *)
(***************************************************************************)
EXTENDS Integers, Sequences, FiniteSets, TLC

(***************************************************************************)
(* Small helpers over sequences and sets.                                  *)
(***************************************************************************)
Min(S) == CHOOSE x \in S : \A y \in S : x <= y

RECURSIVE SetToSeq(_)
\* the elements of a finite set of integers in ascending order
SetToSeq(S) == IF S = {} THEN << >> ELSE << Min(S) >> \o SetToSeq(S \ {Min(S)})

Range(s) == { s[k] : k \in 1..Len(s) }

RECURSIVE SumSeq(_)
SumSeq(s) == IF s = << >> THEN 0 ELSE Head(s) + SumSeq(Tail(s))

(***************************************************************************)
(* types/board.rs: DIMENSIONS and Elimination.                             *)
(***************************************************************************)
MAX_SIZE == 16

DIMENSIONS ==
    << <<1, 1>>, <<2, 1>>, <<3, 1>>, <<2, 2>>, <<5, 1>>, <<3, 2>>, <<7, 1>>, <<4, 2>>,
       <<3, 3>>, <<5, 2>>, <<11, 1>>, <<4, 3>>, <<13, 1>>, <<7, 2>>, <<5, 3>>, <<4, 4>> >>

\* Elimination as a boolean: TRUE is Eliminated, FALSE is Same.
\* `a &= b` keeps Eliminated once it has been seen.
ElimAnd(a, b) == IF a THEN TRUE ELSE b

(***************************************************************************)
(* board.rs: board construction.                                           *)
(***************************************************************************)
\* default regions that are `height` cells wide and `width` cells tall
build_default_regions_turned(size) ==
    IF size = 0 \/ size > Len(DIMENSIONS) THEN "err"
    ELSE LET width  == DIMENSIONS[size][2]
             height == DIMENSIONS[size][1]
         IN [ r \in 1..size |->
                LET box_y == (r - 1) \div height
                    box_x == (r - 1) % height
                IN [ k \in 1..size |->
                       LET y == (k - 1) \div width
                           x == (k - 1) % width
                       IN (box_y * height + y) * size + box_x * width + x ] ]

\* build_default_regions(size): "err" for OutOfBounds, else the regions
build_default_regions(size) ==
    IF size = 0 \/ size > Len(DIMENSIONS) THEN "err"
    ELSE LET width  == DIMENSIONS[size][1]
             height == DIMENSIONS[size][2]
         IN [ r \in 1..size |->
                LET box_y == (r - 1) \div height
                    box_x == (r - 1) % height
                IN [ k \in 1..size |->
                       LET y == (k - 1) \div width
                           x == (k - 1) % width
                       IN (box_y * height + y) * size + box_x * width + x ] ]

\* irregular layouts used as inputs: every row, or every column, is a region
RowRegions(size) == [ r \in 1..size |-> [ k \in 1..size |-> (r - 1) * size + (k - 1) ] ]
ColRegions(size) == [ c \in 1..size |-> [ k \in 1..size |-> (k - 1) * size + (c - 1) ] ]

\* BoardMeta: size, max_val, rows, columns, regions (no extra constraints)
Meta(size, max_val, regions) ==
    [ size    |-> size,
      max_val |-> max_val,
      rows    |-> [ r \in 1..size |-> [ k \in 1..size |-> (r - 1) * size + (k - 1) ] ],
      columns |-> [ c \in 1..size |-> [ k \in 1..size |-> (c - 1) + (k - 1) * size ] ],
      regions |-> regions ]

Cells(m) == 0..(m.size * m.size - 1)

\* empty_cell(max_val): bits 1..=max_val set
empty_cell(max_val) == 1..max_val

\* Board::new_with_regions: the board right after construction
new_with_regions(m) ==
    [ grid   |-> [ i \in Cells(m) |-> empty_cell(m.max_val) ],
      solved |-> {},
      used   |-> {} ]

\* results of the mutators: ok = FALSE is Err(Contradiction); elim is the Elimination
Res(ok, elim, b) == [ ok |-> ok, elim |-> elim, b |-> b ]

(***************************************************************************)
(* types/board.rs eliminate, board.rs assign.                              *)
(***************************************************************************)
\* the board with the candidate mask of cell idx replaced (`self.grid[idx] = mask`)
with_cell(b, idx, mask) ==
    [ grid |-> [ i \in DOMAIN b.grid |-> IF i = idx THEN mask ELSE b.grid[i] ],
      solved |-> b.solved, used |-> b.used ]

\* eliminate with `^=` in place of `&= !value`: a digit the cell lacks is added
eliminate_xor(b, idx, value) ==
    LET nb == with_cell(b, idx, (b.grid[idx] \ value) \cup (value \ b.grid[idx]))
    IN IF nb.grid[idx] = {} THEN Res(FALSE, TRUE, nb) ELSE Res(TRUE, TRUE, nb)

\* eliminate with `&= value` in place of `&= !value`: the shared digits are kept
eliminate_and(b, idx, value) ==
    IF b.grid[idx] \cap value = {} THEN Res(TRUE, FALSE, b)
    ELSE Res(TRUE, TRUE, with_cell(b, idx, b.grid[idx] \cap value))

eliminate(b, idx, value) ==
    IF b.grid[idx] \cap value = {} THEN Res(TRUE, FALSE, b)
    ELSE LET nb == with_cell(b, idx, b.grid[idx] \ value)
         IN IF nb.grid[idx] = {} THEN Res(FALSE, TRUE, nb) ELSE Res(TRUE, TRUE, nb)

RECURSIVE eliminate_peers(_, _, _, _, _)
\* a loop that ends at the first cell it eliminated from
eliminate_peers_first(e, unit, idx, value, ret) ==
    IF ~e.ok THEN Res(FALSE, ret, e.b)
    ELSE IF e.elim THEN Res(TRUE, TRUE, e.b)
    ELSE eliminate_peers(e.b, Tail(unit), idx, value, ret)

\* `ret &= self.eliminate(i, value)?` with e the result of the eliminate, then the
\* rest of the loop
eliminate_peers_rest(e, unit, idx, value, ret) ==
    IF ~e.ok THEN Res(FALSE, ret, e.b)
    ELSE eliminate_peers(e.b, Tail(unit), idx, value, ElimAnd(ret, e.elim))

\* one `for i in unit { if i == idx continue; ret &= self.eliminate(i, value)? }` loop
eliminate_peers(b, unit, idx, value, ret) ==
    IF unit = << >> THEN Res(TRUE, ret, b)
    ELSE IF Head(unit) = idx THEN eliminate_peers(b, Tail(unit), idx, value, ret)
    ELSE eliminate_peers_rest(eliminate(b, Head(unit), value), unit, idx, value, ret)

\* the first region that contains idx (the loop breaks after it); << >> if none
owning_region(m, idx) ==
    LET hits == { r \in 1..Len(m.regions) : idx \in Range(m.regions[r]) }
    IN IF hits = {} THEN << >> ELSE m.regions[Min(hits)]

\* the region loop of assign, r the result of the loops before it
assign_region(m, r, idx, value) ==
    IF ~r.ok THEN r
    ELSE eliminate_peers(r.b, owning_region(m, idx), idx, value, r.elim)

\* the column loop of assign and what follows, r the result of the row loop
assign_column(m, r, idx, value) ==
    IF ~r.ok THEN r
    ELSE assign_region(m,
             eliminate_peers(r.b, m.columns[(idx - m.size * (idx \div m.size)) + 1],
                             idx, value, r.elim),
             idx, value)

\* the row loop of assign and what follows
assign_row(m, b, idx, value) ==
    assign_column(m, eliminate_peers(b, m.rows[(idx \div m.size) + 1], idx, value, FALSE),
                  idx, value)

\* assign without the column loop
assign_no_column(m, b, idx, value) ==
    LET first == idx \notin b.solved
        b1 == IF first
              THEN [ grid |-> with_cell(b, idx, value).grid,
                     solved |-> b.solved \cup {idx},
                     used |-> b.used \cup value ]
              ELSE b
    IN IF first /\ Cardinality(b1.used) > m.size THEN Res(FALSE, FALSE, b1)
       ELSE assign_region(m,
                eliminate_peers(b1, m.rows[(idx \div m.size) + 1], idx, value, FALSE),
                idx, value)

assign(m, b, idx, value) ==
    LET first == idx \notin b.solved
        b1 == IF first
              THEN [ grid |-> with_cell(b, idx, value).grid,
                     solved |-> b.solved \cup {idx},
                     used |-> b.used \cup value ]
              ELSE b
    IN IF first /\ Cardinality(b1.used) > m.size THEN Res(FALSE, FALSE, b1)
       ELSE assign_row(m, b1, idx, value)

\* Board::solved: every cell carries its solved bit (there are no constraints to check)
solved(m, b) == Cardinality(b.solved) = m.size * m.size

(***************************************************************************)
(* board.rs: naked singles, hidden singles, deduce.                        *)
(***************************************************************************)
RECURSIVE assign_all(_, _, _, _)
\* `ret &= self.assign(i, d)?` with a the result of the assign, then the rest of temp
assign_all_rest(m, a, temp, ret) ==
    IF ~a.ok THEN Res(FALSE, ret, a.b)
    ELSE assign_all(m, a.b, Tail(temp), ElimAnd(ret, a.elim))

\* `for (i, d) in temp { ret &= self.assign(i, d)?; }`
assign_all(m, b, temp, ret) ==
    IF temp = << >> THEN Res(TRUE, ret, b)
    ELSE assign_all_rest(m, assign(m, b, Head(temp)[1], Head(temp)[2]), temp, ret)

naked_singles(m, b) ==
    LET singles == { i \in Cells(m) : Cardinality(b.grid[i]) = 1 /\ i \notin b.solved }
        idxs == SetToSeq(singles)
        temp == [ k \in 1..Len(idxs) |-> << idxs[k], b.grid[idxs[k]] >> ]
    IN assign_all(m, b, temp, FALSE)

RECURSIVE hidden_digits(_, _, _, _, _, _)
\* `ret &= self.assign(*idx, v)?` with a the result of the assign, then the next digits
hidden_digits_rest(m, a, unit, cells, i, ret) ==
    IF ~a.ok THEN Res(FALSE, ret, a.b)
    ELSE hidden_digits(m, a.b, unit, cells, i + 1, ElimAnd(ret, a.elim))

\* the `for i in 1..=max_val` loop of hidden_singles_helper over the cached cells;
\* f holds the positions in unit of the cached cells that have digit i
hidden_digits(m, b, unit, cells, i, ret) ==
    IF i > m.max_val THEN Res(TRUE, ret, b)
    ELSE LET f == { k \in 1..Len(unit) : i \in cells[unit[k]] }
         IN IF f = {} THEN Res(FALSE, ret, b)
            ELSE IF Cardinality(f) = 1
                 THEN IF i \notin b.grid[unit[Min(f)]] THEN Res(FALSE, ret, b)
                      ELSE hidden_digits_rest(m, assign(m, b, unit[Min(f)], {i}),
                                              unit, cells, i, ret)
                 ELSE hidden_digits(m, b, unit, cells, i + 1, ret)

hidden_singles_helper(m, b, unit) ==
    LET cells == [ idx \in Range(unit) |-> b.grid[idx] ]
    IN hidden_digits(m, b, unit, cells, 1, FALSE)

RECURSIVE hidden_units(_, _, _, _)
\* `ret &= self.hidden_singles_helper(r)?` with h the helper's result, then the
\* units that follow
hidden_units_rest(m, h, units, ret) ==
    IF ~h.ok THEN Res(FALSE, ret, h.b)
    ELSE hidden_units(m, h.b, Tail(units), ElimAnd(ret, h.elim))

\* the loops of hidden_singles over the rows, the columns and the regions
hidden_units(m, b, units, ret) ==
    IF units = << >> THEN Res(TRUE, ret, b)
    ELSE hidden_units_rest(m, hidden_singles_helper(m, b, Head(units)), units, ret)

hidden_singles(m, b) == hidden_units(m, b, m.rows \o m.columns \o m.regions, FALSE)

RECURSIVE naked_loop(_, _)
\* the test of the while loop, n the result of naked_singles
naked_loop_test(m, n) ==
    IF ~n.ok THEN n
    ELSE IF n.elim THEN naked_loop(m, n.b) ELSE n

\* `while self.naked_singles()? == Elimination::Eliminated {}`
naked_loop(m, b) == naked_loop_test(m, naked_singles(m, b))

RECURSIVE deduce(_, _)
\* `if self.hidden_singles()? == Eliminated { continue; } ... break;`, h the result of
\* hidden_singles
deduce_hidden(m, h) ==
    IF ~h.ok THEN Res(FALSE, FALSE, h.b)
    ELSE IF h.elim THEN deduce(m, h.b)
    ELSE Res(TRUE, FALSE, h.b)

\* the body of deduce's loop after the naked-singles loop, n that loop's result
deduce_naked(m, n) ==
    IF ~n.ok THEN Res(FALSE, FALSE, n.b)
    ELSE deduce_hidden(m, hidden_singles(m, n.b))

deduce(m, b) == deduce_naked(m, naked_loop(m, b))

RECURSIVE next_idx_scan(_, _, _, _, _)
next_idx_scan(m, b, i, count, ret) ==
    IF i >= m.size * m.size THEN ret
    ELSE LET c == Cardinality(b.grid[i])
         IN IF c # 1 /\ c < count THEN next_idx_scan(m, b, i + 1, c, i)
            ELSE next_idx_scan(m, b, i + 1, count, ret)

\* None is -1
next_idx_to_guess(m, b) == next_idx_scan(m, b, 0, m.size + 1, -1)

\* iter_ones: the digits of the cell, ascending
iter_ones(m, b, idx) == SetToSeq(b.grid[idx] \cap (1..m.max_val))

\* guesses that offers only the lowest candidate
guesses_lowest(m, b, idx) == LET o == iter_ones(m, b, idx) IN [ k \in 1..Min({1, Len(o)}) |-> { o[k] } ]

\* guesses that returns the candidates highest digit first
guesses_descending(m, b, idx) == LET o == iter_ones(m, b, idx) IN [ k \in 1..Len(o) |-> { o[Len(o) + 1 - k] } ]

\* Solvable::guesses: the single-bit masks of the cell's candidates
guesses(m, b, idx) == LET o == iter_ones(m, b, idx) IN [ k \in 1..Len(o) |-> { o[k] } ]

(***************************************************************************)
(* solution_iter/src/lib.rs: SolutionIterator over a Sudoku Board.         *)
(* The stack is a sequence whose last element is the top (Vec push / pop). *)
(***************************************************************************)
NoBoard == [ grid |-> << >>, solved |-> {}, used |-> {} ]

Frame(b, idx, values) == [ board |-> b, idx |-> idx, values |-> values ]

Front(s) == SubSeq(s, 1, Len(s) - 1)
Last(s) == s[Len(s)]

\* SolutionIterator::new after deduce succeeded: the match on next_idx_to_guess
new_stack_guess(m, b, next_idx) ==
    IF next_idx = -1
    THEN IF solved(m, b) THEN << Frame(b, 0, << >>) >> ELSE << >>
    ELSE << Frame(b, next_idx, guesses(m, b, next_idx)) >>

\* a constructor that ignores the result of deduce
new_stack_deduced_any(m, d) == new_stack_guess(m, d.b, next_idx_to_guess(m, d.b))

\* SolutionIterator::new after `board.deduce()`, d its result
new_stack_deduced(m, d) ==
    IF d.ok THEN new_stack_guess(m, d.b, next_idx_to_guess(m, d.b)) ELSE << >>

\* SolutionIterator::new: the initial stack
new_stack(m, puzzle) == new_stack_deduced(m, deduce(m, puzzle))

Item(stack, some, b) == [ stack |-> stack, some |-> some, board |-> b ]

RECURSIVE next(_, _)
\* the end of the loop body: `match board.next_idx_to_guess()`
next_push(m, stack1, b, idx) ==
    IF idx = -1 THEN next(m, stack1)
    ELSE next(m, Append(stack1, Frame(b, idx, guesses(m, b, idx))))

\* a loop body that returns None at a failed deduce instead of continuing
next_deduced_stop(m, stack1, d) ==
    IF ~d.ok THEN Item(stack1, FALSE, NoBoard)
    ELSE IF solved(m, d.b) THEN Item(stack1, TRUE, d.b)
    ELSE next_push(m, stack1, d.b, next_idx_to_guess(m, d.b))

\* the loop body after `board.deduce()`, d its result
next_deduced(m, stack1, d) ==
    IF ~d.ok THEN next(m, stack1)
    ELSE IF solved(m, d.b) THEN Item(stack1, TRUE, d.b)
    ELSE next_push(m, stack1, d.b, next_idx_to_guess(m, d.b))

\* the loop body after `board.assign(next_idx, value)`, a its result
next_assigned(m, stack1, a) ==
    IF ~a.ok THEN next(m, stack1)
    ELSE next_deduced(m, stack1, deduce(m, a.b))

\* SolutionIterator::next: the stack left behind and the item returned
next(m, stack) ==
    IF stack = << >> THEN Item(<< >>, FALSE, NoBoard)
    ELSE LET top  == Last(stack)
             rest == Front(stack)
         IN IF solved(m, top.board) THEN Item(rest, TRUE, top.board)
            ELSE IF top.values = << >> THEN next(m, rest)
            ELSE next_assigned(m,
                     Append(rest, Frame(top.board, top.idx, Front(top.values))),
                     assign(m, top.board, top.idx, Last(top.values)))

RECURSIVE drain(_, _)
\* one round of `for sln in iter`, n the result of next
drain_item(m, n) ==
    IF n.some THEN << n.board >> \o drain(m, n.stack) ELSE << >>

\* `for sln in iter`: every item the iterator still yields, in order
drain(m, stack) == drain_item(m, next(m, stack))

\* SolutionIterator::new(puzzle) consumed to the end
solutions(m, puzzle) == drain(m, new_stack(m, puzzle))

\* a `|=` that keeps the left operand
bitor_assign_keep(b, rhs) == b

\* impl BitOrAssign for Board: only the grid is merged
bitor_assign(b, rhs) ==
    [ grid |-> [ i \in DOMAIN b.grid |-> b.grid[i] \cup rhs.grid[i] ],
      solved |-> b.solved, used |-> b.used ]

RECURSIVE or_all(_, _)
or_all(ret, slns) == IF slns = << >> THEN ret ELSE or_all(bitor_assign(ret, Head(slns)), Tail(slns))

\* an Option<Board>
None == [ some |-> FALSE, board |-> NoBoard ]
Some(b) == [ some |-> TRUE, board |-> b ]

\* true_candidates_dfs after `iter.next()`, first its result
dfs_merge(m, first) ==
    IF ~first.some THEN None
    ELSE Some(or_all(first.board, drain(m, first.stack)))

true_candidates_dfs(m, puzzle) == dfs_merge(m, next(m, new_stack(m, puzzle)))

\* Solvable::possibility
possibility(b, idx, g) == b.grid[idx] \cap g # {}

\* `if new_puzzle.assign(i, g) { SolutionIterator::new(&new_puzzle).next() }`, a the
\* result of the assign
tc_probe(m, a) ==
    IF a.ok THEN next(m, new_stack(m, a.b)) ELSE Item(<< >>, FALSE, NoBoard)

RECURSIVE tc_guesses(_, _, _, _, _, _, _)
\* `if let Some(p) = ... { *ret |= p; count += 1; val = Some(g); }`, p the probe's result
tc_guesses_probed(m, puzzle, ret, i, gs, count, val, p) ==
    IF p.some
    THEN tc_guesses(m, puzzle, bitor_assign(ret, p.board), i, Tail(gs), count + 1, Head(gs))
    ELSE tc_guesses(m, puzzle, ret, i, Tail(gs), count, val)

\* the `for g in puzzle.guesses(i)` loop: the merged result, the count and the last value
tc_guesses(m, puzzle, ret, i, gs, count, val) ==
    IF gs = << >> THEN [ ret |-> ret, count |-> count, val |-> val ]
    ELSE IF possibility(puzzle, i, Head(gs))
         THEN IF possibility(ret, i, Head(gs))
              THEN tc_guesses(m, puzzle, ret, i, Tail(gs), count + 1, Head(gs))
              ELSE tc_guesses_probed(m, puzzle, ret, i, gs, count, val,
                                     tc_probe(m, assign(m, puzzle, i, Head(gs))))
         ELSE tc_guesses(m, puzzle, ret, i, Tail(gs), count, val)

\* `if count == 1 { puzzle.assign(i, val.unwrap()); puzzle.deduce(); }`: both results
\* are dropped, the puzzle keeps whatever they wrote
tc_narrow(m, puzzle, i, t) ==
    IF t.count = 1 THEN deduce(m, assign(m, puzzle, i, t.val).b).b ELSE puzzle

RECURSIVE tc_indices(_, _, _, _)
\* the end of one round of `for i in puzzle.indices()`, t the result of the inner loop
tc_indices_rest(m, puzzle, idxs, t) ==
    tc_indices(m, tc_narrow(m, puzzle, Head(idxs), t), t.ret, Tail(idxs))

\* the `for i in puzzle.indices()` loop of tc_breadth_first
tc_indices(m, puzzle, ret, idxs) ==
    IF idxs = << >> THEN ret
    ELSE tc_indices_rest(m, puzzle, idxs,
             tc_guesses(m, puzzle, ret, Head(idxs), guesses(m, puzzle, Head(idxs)), 0, {}))

\* Solvable::indices for Board
indices(m) == [ k \in 1..(m.size * m.size) |-> k - 1 ]

\* a breadth-first phase that probes nothing
tc_breadth_first_skip(m, puzzle, ret) == ret

tc_breadth_first(m, puzzle, ret) == tc_indices(m, puzzle, ret, indices(m))

\* true_candidates_bfs after `SolutionIterator::new(puzzle).next()`, first its result
bfs_probe(m, puzzle, first) ==
    IF ~first.some THEN None
    ELSE Some(tc_breadth_first(m, puzzle, first.board))

true_candidates_bfs(m, puzzle) == bfs_probe(m, puzzle, next(m, new_stack(m, puzzle)))

RECURSIVE tc_hybrid_loop(_, _, _, _, _, _)
\* one round of `for sln in iter` in true_candidates, n the result of next
tc_hybrid_item(m, puzzle, n, ret, count, limit) ==
    IF ~n.some THEN ret
    ELSE IF count + 1 > limit
         THEN tc_breadth_first(m, puzzle, bitor_assign(ret, n.board))
         ELSE tc_hybrid_loop(m, puzzle, n.stack, bitor_assign(ret, n.board), count + 1, limit)

\* the `for sln in iter` loop of true_candidates with the switch to breadth first
tc_hybrid_loop(m, puzzle, stack, ret, count, limit) ==
    tc_hybrid_item(m, puzzle, next(m, stack), ret, count, limit)

\* true_candidates after `iter.next()`, first its result
hybrid_merge(m, puzzle, first, limit) ==
    IF ~first.some THEN None
    ELSE Some(tc_hybrid_loop(m, puzzle, first.stack, first.board, 1, limit))

\* true_candidates with its threshold as a parameter
true_candidates_limit(m, puzzle, limit) ==
    hybrid_merge(m, puzzle, next(m, new_stack(m, puzzle)), limit)

HYBRID_LIMIT == 10000

true_candidates(m, puzzle) == true_candidates_limit(m, puzzle, HYBRID_LIMIT)

(***************************************************************************)
(* board.rs: Board::from_digits and the pencil-mark loop of                *)
(* TryFrom<&FPuzzles>.  A clue is 0 (no clue), a digit (a given) or a set  *)
(* of digits (given pencil marks).                                         *)
(***************************************************************************)
RECURSIVE from_digits_loop(_, _, _, _)
\* `b.assign(i, *d)?` with a the result of the assign, then the digits that follow
from_digits_rest(m, a, digits, i) ==
    IF ~a.ok THEN Res(FALSE, FALSE, a.b)
    ELSE from_digits_loop(m, a.b, digits, i + 1)

from_digits_loop(m, b, digits, i) ==
    IF i >= m.size * m.size THEN Res(TRUE, FALSE, b)
    ELSE IF digits[i] = 0 THEN from_digits_loop(m, b, digits, i + 1)
    ELSE IF b.grid[i] \cap {digits[i]} = {} THEN Res(FALSE, FALSE, b)
    ELSE from_digits_rest(m, assign(m, b, i, {digits[i]}), digits, i)

\* Board::from_digits on a fresh board; ok = FALSE is Err(Contradiction)
from_digits(m, digits) == from_digits_loop(m, new_with_regions(m), digits, 0)

(***************************************************************************)
(* board.rs TryFrom<&FPuzzles>: the given-pencil-marks branch.             *)
(***************************************************************************)
RECURSIVE pencil_cell(_, _, _, _, _)
\* `ret.eliminate(cell, to_bits(v))?` with e its result, then the digits that follow
pencil_cell_rest(m, e, cell, marks, v) ==
    IF ~e.ok THEN Res(FALSE, FALSE, e.b)
    ELSE pencil_cell(m, e.b, cell, marks, v + 1)

\* `for v in 1..=max_val { if !marks.contains(&v) { ret.eliminate(cell, to_bits(v))?; } }`
pencil_cell(m, b, cell, marks, v) ==
    IF v > m.max_val THEN Res(TRUE, FALSE, b)
    ELSE IF v \in marks THEN pencil_cell(m, b, cell, marks, v + 1)
    ELSE pencil_cell_rest(m, eliminate(b, cell, {v}), cell, marks, v)

RECURSIVE pencil_loop(_, _, _, _)
\* the end of one round of the loop over the cells, c the result of the cell's marks
pencil_loop_rest(m, c, marks, cell) ==
    IF ~c.ok THEN c ELSE pencil_loop(m, c.b, marks, cell + 1)

\* the loop over the cells of the grid
pencil_loop(m, b, marks, cell) ==
    IF cell >= m.size * m.size THEN Res(TRUE, FALSE, b)
    ELSE IF marks[cell] = {} THEN pencil_loop(m, b, marks, cell + 1)
    ELSE pencil_loop_rest(m, pencil_cell(m, b, cell, marks[cell], 1), marks, cell)

\* a fresh board with the given pencil marks applied (no given digits)
given_pencil_marks(m, marks) == pencil_loop(m, new_with_regions(m), marks, 0)

\* the givens loop of TryFrom<&FPuzzles>: `ret.assign(r * size + c, to_bits(v))?` for
\* every cell with a value (the value is not checked against the cell's candidates)
RECURSIVE try_from_loop(_, _, _, _)
try_from_rest(m, a, digits, i) ==
    IF ~a.ok THEN Res(FALSE, FALSE, a.b)
    ELSE try_from_loop(m, a.b, digits, i + 1)

try_from_loop(m, b, digits, i) ==
    IF i >= m.size * m.size THEN Res(TRUE, FALSE, b)
    ELSE IF digits[i] = 0 THEN try_from_loop(m, b, digits, i + 1)
    ELSE try_from_rest(m, assign(m, b, i, {digits[i]}), digits, i)

\* Board::try_from on an f-puzzles grid that carries only given values
try_from(m, digits) == try_from_loop(m, new_with_regions(m), digits, 0)

(***************************************************************************)
(* board.rs: solution_count_helper and solution_count, one call of the     *)
(* helper per branch of the parallel fold.                                 *)
(***************************************************************************)
\* the size of a subtotal above which the helper sends it on the channel
FLUSH_LIMIT == 500

\* capacity of the engine channel created by count_solutions
ENGINE_CHANNEL == 100

\* what a call of the helper does first: it returns n, or it folds over the
\* candidates vals of cell idx of its deduced board
Ret(n) == [ fold |-> FALSE, ret |-> n, board |-> NoBoard, idx |-> -1, vals |-> << >> ]
Fold(b, idx, vals) == [ fold |-> TRUE, ret |-> 0, board |-> b, idx |-> idx, vals |-> vals ]

\* `let Some(idx) = self.next_idx_to_guess() else { return 0 }`, then the fold
helper_guess(m, b, idx) ==
    IF idx = -1 THEN Ret(0) ELSE Fold(b, idx, iter_ones(m, b, idx))

\* after `self.deduce()`, d its result
helper_deduced(m, d) ==
    IF ~d.ok THEN Ret(0)
    ELSE IF solved(m, d.b) THEN Ret(1)
    ELSE helper_guess(m, d.b, next_idx_to_guess(m, d.b))

\* a helper that does not look at the token on entry
solution_count_helper_late(m, b, is_cancelled) == helper_deduced(m, deduce(m, b))

\* solution_count_helper up to its fold; is_cancelled is what token.is_cancelled()
\* returned at entry
solution_count_helper(m, b, is_cancelled) ==
    IF is_cancelled THEN Ret(0) ELSE helper_deduced(m, deduce(m, b))

\* the body of the fold closure for one candidate, a the result of
\* `board.assign(idx, bit)` on the clone
fold_branch(m, a, is_cancelled) ==
    IF ~a.ok THEN Ret(0) ELSE solution_count_helper(m, a.b, is_cancelled)

\* a helper that returns its subtotal after having sent it
after_send_keep(count) == count

\* what the helper returns once its subtotal went out on the channel
after_send(count) == 0

\* tx.try_send on a channel holding ch with capacity c; closed = receiver dropped
try_send(ch, c, closed) ==
    IF closed THEN "closed" ELSE IF Len(ch) >= c THEN "full" ELSE "ok"

\* a retry loop that never looks at the token
after_full_retry(is_cancelled) == "flush"

\* the helper's retry loop after Err(Full): `if token.is_cancelled() { return
\* count; }`, otherwise try_send again
after_full(is_cancelled) == IF is_cancelled THEN "done" ELSE "flush"

\* one running call of the helper: st = "new" (spawned, not yet entered), "wait"
\* (inside the fold), "flush" (about to try_send its subtotal ret), "full" (try_send
\* returned Full, about to poll the token), "done" (returned ret)
Task(st, b, idx, ret) == [ st |-> st, board |-> b, idx |-> idx, ret |-> ret ]

\* the branches of the fold of call p
children(t, p) ==
    { q \in DOMAIN t : Len(q) = Len(p) + 1 /\ SubSeq(q, 1, Len(p)) = p }

\* call p enters its fold: one branch per candidate, each on the deduced board
spawn(t, p, e) ==
    [ q \in DOMAIN t \cup { Append(p, v) : v \in Range(e.vals) } |->
        IF q = p THEN Task("wait", NoBoard, e.idx, 0)
        ELSE IF q \in DOMAIN t THEN t[q]
        ELSE Task("new", e.board, e.idx, 0) ]

\* call p moves to state st with value n
settle(t, p, st, n) ==
    [ q \in DOMAIN t |-> IF q = p THEN Task(st, NoBoard, -1, n) ELSE t[q] ]

\* a fold that adds the first branch's subtotal a second time
fold_sum_first_twice(m, t, p) ==
    SumSeq([ v \in 1..m.max_val |->
               IF Append(p, v) \in DOMAIN t THEN t[Append(p, v)].ret ELSE 0 ])
    + (IF Append(p, 1) \in DOMAIN t THEN t[Append(p, 1)].ret ELSE 0)

\* `.sum::<usize>()`: the total of what the branches of p returned
fold_sum(m, t, p) ==
    SumSeq([ v \in 1..m.max_val |->
               IF Append(p, v) \in DOMAIN t THEN t[Append(p, v)].ret ELSE 0 ])

\* the end of the fold of p: `if count > 500 { try_send ... } else { count }`
join(t, p, count, lim) ==
    [ q \in DOMAIN t \ children(t, p) |->
        IF q = p THEN Task(IF count > lim THEN "flush" ELSE "done", NoBoard, -1, count)
        ELSE t[q] ]

(***************************************************************************)
(* listener: responses and count_solutions' running total.                 *)
(***************************************************************************)
Count(n, count, in_progress) ==
    [ type |-> "count", nonce |-> n, count |-> count, inProgress |-> in_progress ]

Cancelled(n) == [ type |-> "cancelled", nonce |-> n, count |-> 0, inProgress |-> FALSE ]

Invalid(n) == [ type |-> "invalid", nonce |-> n, count |-> 0, inProgress |-> FALSE ]

\* a running total that forgets what was counted before
running_total_last(count, n) == n

\* `count += n`
running_total(count, n) == count + n

(***************************************************************************)
(* State.                                                                  *)
(*   meta   : the BoardMeta shared by every clone of the board             *)
(*   start  : the board as constructed (the input of the call under test)  *)
(*   board  : the mutable Board                                            *)
(*   last   : the public operation applied last and what it returned       *)
(*   steps  : number of operations applied so far                          *)
(*   pc     : position inside the operation that runs in steps             *)
(*   stack  : the SolutionIterator's stack (top = last element)            *)
(*   yielded: the items the iterator has returned so far                   *)
(*   tc     : the true-candidates call made last and what it returned      *)
(*   tasks  : the running calls of solution_count_helper, by branch path    *)
(*   chan   : the engine channel (values sent and not yet received)         *)
(*   sent   : every value a try_send put on the engine channel, in order    *)
(*   cancelled : the CancellationTokens that have been cancelled            *)
(*   token  : the token handed to the count job                            *)
(*   threshold, cap : the flush threshold and the engine channel's capacity *)
(*   wpc    : position of the worker inside solution_count                  *)
(*   rx     : position of count_solutions' receive loop                     *)
(*   rcount : count_solutions' running total                                *)
(*   nonce  : the nonce of the count request                                *)
(*   out    : the responses put on the outbound channel, in order           *)
(*   script : the requests the client has still to send                     *)
(*   inbox  : the requests that reached the socket and were not yet read    *)
(*   hpc    : position of the connection handler                            *)
(*   ntok   : number of CancellationTokens the handler has created          *)
(*   during : nonces of the cancel requests that arrived while a count job  *)
(*            was running                                                   *)
(***************************************************************************)
VARIABLES meta, start, board, last, steps, pc, stack, yielded, tc,
          tasks, chan, sent, cancelled, token, threshold, cap, wpc, rx, rcount, nonce, out,
          script, inbox, hpc, ntok, during

iterVars == << stack, yielded, tc >>

jobVars == << tasks, chan, sent, cancelled, token, threshold, cap, wpc, rx, rcount, nonce, out >>

listenVars == << script, inbox, hpc, ntok, during >>

vars == << meta, start, board, last, steps, pc, iterVars, jobVars, listenVars >>

\* no true-candidates call has been made
NoCall == [ fn |-> "none", limit |-> 0, result |-> None ]

\* state of the parts a specification does not use
IdleIter == stack = << >> /\ yielded = << >> /\ tc = NoCall

\* no count job and no connection
IdleJob ==
    /\ tasks = << >> /\ chan = << >> /\ sent = << >> /\ cancelled = {} /\ token = 0
    /\ threshold = 0 /\ cap = 0 /\ wpc = "idle" /\ rx = "idle" /\ rcount = 0 /\ nonce = 0
    /\ out = << >>

IdleListen == script = << >> /\ inbox = << >> /\ hpc = "off" /\ ntok = 0 /\ during = {}

IdleRest == IdleIter /\ IdleJob /\ IdleListen

(***************************************************************************)
(* Bounds and input families.                                              *)
(***************************************************************************)
\* number of public operations applied to one board
MaxOps == 2

\* number of given digits in an input puzzle
MaxGivens == 3

\* an irregular 3x3 layout whose regions are neither rows nor columns
JigsawRegions3 == << <<0, 1, 3>>, <<2, 5, 8>>, <<4, 6, 7>> >>

Meta1 == Meta(1, 1, build_default_regions(1))
Meta2 == Meta(2, 2, build_default_regions(2))
Meta2x == Meta(2, 3, build_default_regions(2))
Meta3 == Meta(3, 3, build_default_regions(3))
Meta3j == Meta(3, 3, JigsawRegions3)
Meta4 == Meta(4, 4, build_default_regions(4))
Meta4r == Meta(4, 4, RowRegions(4))

\* digit grids (0 = empty) with at most k givens
GivenPuzzles(m, k) ==
    LET sets == { T \in SUBSET Cells(m) : Cardinality(T) <= k }
        fills == UNION { [ T -> 1..m.max_val ] : T \in sets }
    IN { [ i \in Cells(m) |-> IF i \in DOMAIN f THEN f[i] ELSE 0 ] : f \in fills }

\* pencil-marked 4x4 puzzles: each cell of the first row is marked with a pair of
\* neighbouring digits, and the other cells of the first column and first box are
\* either unmarked or marked {2, 3, 4}
PencilPairs == { {1, 2}, {2, 3}, {3, 4} }
PencilPuzzles ==
    { [ i \in Cells(Meta4) |->
          IF i < 4 THEN row[i + 1]
          ELSE IF i \in {4, 5, 8, 12} THEN side
          ELSE {} ] :
        row \in [ 1..4 -> PencilPairs ], side \in { {}, {2, 3, 4} } }

(***************************************************************************)
(* SpecOps: the public operations applied to a freshly constructed board.  *)
(***************************************************************************)
Called(op, idx, value, ok, elim) ==
    [ op |-> op, idx |-> idx, value |-> value, ok |-> ok, elim |-> elim ]

OpsMetas == { Meta1, Meta2, Meta2x, Meta3, Meta3j }

InitOps ==
    /\ meta \in OpsMetas
    /\ start = new_with_regions(meta)
    /\ board = start
    /\ last = Called("new", 0, 0, TRUE, FALSE)
    /\ steps = 0
    /\ pc = "ops"
    /\ IdleRest

\* lib.rs assign(board, idx, value): bounds and candidate checks, then Board::assign
Assign(idx, value) ==
    /\ steps < MaxOps
    /\ \E r \in { IF idx >= meta.size * meta.size \/ value > meta.max_val
                         \/ board.grid[idx] \cap {value} = {}
                    THEN Res(FALSE, FALSE, board)
                    ELSE assign(meta, board, idx, {value}) } :
          /\ board' = r.b
          /\ last' = Called("assign", idx, value, r.ok, r.elim)
    /\ steps' = steps + 1
    /\ UNCHANGED << meta, start, pc, iterVars, jobVars, listenVars >>

\* lib.rs eliminate(board, idx, value): bounds checks, then Board::eliminate
Eliminate(idx, value) ==
    /\ steps < MaxOps
    /\ \E r \in { IF idx >= meta.size * meta.size \/ value > meta.max_val
                    THEN Res(FALSE, FALSE, board)
                    ELSE eliminate(board, idx, {value}) } :
          /\ board' = r.b
          /\ last' = Called("eliminate", idx, value, r.ok, r.elim)
    /\ steps' = steps + 1
    /\ UNCHANGED << meta, start, pc, iterVars, jobVars, listenVars >>

NakedSingles ==
    /\ steps < MaxOps
    /\ \E r \in { naked_singles(meta, board) } :
          /\ board' = r.b
          /\ last' = Called("naked_singles", 0, 0, r.ok, r.elim)
    /\ steps' = steps + 1
    /\ UNCHANGED << meta, start, pc, iterVars, jobVars, listenVars >>

HiddenSingles ==
    /\ steps < MaxOps
    /\ \E r \in { hidden_singles(meta, board) } :
          /\ board' = r.b
          /\ last' = Called("hidden_singles", 0, 0, r.ok, r.elim)
    /\ steps' = steps + 1
    /\ UNCHANGED << meta, start, pc, iterVars, jobVars, listenVars >>

Deduce ==
    /\ steps < MaxOps
    /\ \E r \in { deduce(meta, board) } :
          /\ board' = r.b
          /\ last' = Called("deduce", 0, 0, r.ok, FALSE)
    /\ steps' = steps + 1
    /\ UNCHANGED << meta, start, pc, iterVars, jobVars, listenVars >>

NextOps ==
    \/ \E idx \in 0..(meta.size * meta.size), value \in 0..(meta.max_val + 1) :
           Assign(idx, value)
    \/ \E idx \in 0..(meta.size * meta.size), value \in 0..(meta.max_val + 1) :
           Eliminate(idx, value)
    \/ NakedSingles
    \/ HiddenSingles
    \/ Deduce

SpecOps == InitOps /\ [][NextOps]_vars

(***************************************************************************)
(* SpecDeduce: Board::deduce run pass by pass on a constructed puzzle.     *)
(*   pc = "naked"  : inside `while self.naked_singles()? == Eliminated {}` *)
(*   pc = "hidden" : at `if self.hidden_singles()? == Eliminated`          *)
(*   pc = "ok"     : deduce returned Ok(())                                *)
(*   pc = "err"    : deduce returned Err(Contradiction)                    *)
(***************************************************************************)
GivenMetas == { Meta2, Meta3, Meta3j }

InitDeduce ==
    /\ meta \in GivenMetas \cup {Meta4}
    /\ start = new_with_regions(meta)
    /\ board = start
    /\ last = Called("new", 0, 0, TRUE, FALSE)
    /\ steps = 0
    /\ pc = "new"
    /\ IdleRest

\* Board::from_digits succeeds on a digit grid; deduce is then called on the board
FromDigits(g) ==
    /\ pc = "new"
    /\ meta \in GivenMetas
    /\ \E c \in { from_digits(meta, g) } :
          /\ c.ok
          /\ start' = c.b
          /\ board' = c.b
    /\ pc' = "naked"
    /\ UNCHANGED << meta, last, steps, iterVars, jobVars, listenVars >>

\* a pencil-marked puzzle is loaded; deduce is then called on the board
PencilMarks(marks) ==
    /\ pc = "new"
    /\ meta = Meta4
    /\ \E c \in { given_pencil_marks(meta, marks) } :
          /\ c.ok
          /\ start' = c.b
          /\ board' = c.b
    /\ pc' = "naked"
    /\ UNCHANGED << meta, last, steps, iterVars, jobVars, listenVars >>

DeduceNaked ==
    /\ pc = "naked"
    /\ \E n \in { naked_singles(meta, board) } :
          /\ board' = n.b
          /\ pc' = IF ~n.ok THEN "err" ELSE IF n.elim THEN "naked" ELSE "hidden"
    /\ UNCHANGED << meta, start, last, steps, iterVars, jobVars, listenVars >>

DeduceHidden ==
    /\ pc = "hidden"
    /\ \E h \in { hidden_singles(meta, board) } :
          /\ board' = h.b
          /\ pc' = IF ~h.ok THEN "err" ELSE IF h.elim THEN "naked" ELSE "ok"
    /\ UNCHANGED << meta, start, last, steps, iterVars, jobVars, listenVars >>

NextDeduce ==
    \/ pc = "new" /\ meta \in GivenMetas
          /\ \E g \in GivenPuzzles(meta, MaxGivens) : FromDigits(g)
    \/ pc = "new" /\ meta = Meta4
          /\ \E marks \in PencilPuzzles : PencilMarks(marks)
    \/ DeduceNaked
    \/ DeduceHidden

SpecDeduce == InitDeduce /\ [][NextDeduce]_vars

\* the pass-by-pass run returns what Board::deduce returns
DeduceStepsAgree ==
    /\ pc = "ok" => deduce(meta, start) = Res(TRUE, FALSE, board)
    /\ pc = "err" => deduce(meta, start) = Res(FALSE, FALSE, board)

(***************************************************************************)
(* SpecIter: a SolutionIterator built on a constructed puzzle and consumed *)
(* item by item, then one of the true-candidates functions on the puzzle.  *)
(*   pc = "iter" : the iterator exists and has not yet returned None       *)
(*   pc = "done" : next() returned None                                    *)
(*   pc = "tc"   : a true-candidates function returned                     *)
(***************************************************************************)
\* number of given digits in a puzzle handed to the iterator
IterGivens == 2

\* thresholds below the built-in one tried for the hybrid true_candidates
MaxLowLimit == 2

HybridLimits == 1..MaxLowLimit \cup {HYBRID_LIMIT}

\* 3x3 puzzles whose first row carries given pencil marks ({} = unmarked)
MarkPuzzles ==
    { [ i \in Cells(Meta3) |-> IF i < 3 THEN row[i + 1] ELSE {} ] :
        row \in [ 1..3 -> SUBSET (1..3) ] }

\* a 4x4 puzzle with two givens in opposite corners
Corners4 == [ i \in Cells(Meta4) |-> IF i = 0 THEN 1 ELSE IF i = 15 THEN 2 ELSE 0 ]

InitIter ==
    /\ meta \in GivenMetas \cup {Meta4}
    /\ start = new_with_regions(meta)
    /\ board = start
    /\ last = Called("new", 0, 0, TRUE, FALSE)
    /\ steps = 0
    /\ pc = "new"
    /\ IdleRest

\* SolutionIterator::new on a board built by Board::from_digits
IterNew(g) ==
    /\ pc = "new"
    /\ \E c \in { from_digits(meta, g) } :
          /\ c.ok
          /\ start' = c.b
          /\ stack' = new_stack(meta, c.b)
    /\ pc' = "iter"
    /\ UNCHANGED << meta, board, last, steps, yielded, tc, jobVars, listenVars >>

\* SolutionIterator::new on a board loaded with given pencil marks
IterNewMarks(marks) ==
    /\ pc = "new"
    /\ \E c \in { given_pencil_marks(meta, marks) } :
          /\ c.ok
          /\ start' = c.b
          /\ stack' = new_stack(meta, c.b)
    /\ pc' = "iter"
    /\ UNCHANGED << meta, board, last, steps, yielded, tc, jobVars, listenVars >>

\* one call of SolutionIterator::next
IterNext ==
    /\ pc = "iter"
    /\ \E n \in { next(meta, stack) } :
          /\ stack' = n.stack
          /\ yielded' = IF n.some THEN Append(yielded, n.board) ELSE yielded
          /\ pc' = IF n.some THEN "iter" ELSE "done"
    /\ UNCHANGED << meta, start, board, last, steps, tc, jobVars, listenVars >>

\* calls of next made after it has returned None
MaxAgain == 2

\* one more call of SolutionIterator::next on the exhausted iterator
\*   pc = "after" : next() was called again after it had returned None
IterNextAgain ==
    /\ pc \in {"done", "after"}
    /\ steps < MaxAgain
    /\ \E n \in { next(meta, stack) } :
          /\ stack' = n.stack
          /\ yielded' = IF n.some THEN Append(yielded, n.board) ELSE yielded
          /\ last' = Called("next", 0, 0, n.some, FALSE)
    /\ steps' = steps + 1
    /\ pc' = "after"
    /\ UNCHANGED << meta, start, board, tc, jobVars, listenVars >>

TrueCandidatesDfs ==
    /\ pc = "done"
    /\ tc' = [ fn |-> "dfs", limit |-> 0, result |-> true_candidates_dfs(meta, start) ]
    /\ pc' = "tc"
    /\ UNCHANGED << meta, start, board, last, steps, stack, yielded, jobVars, listenVars >>

TrueCandidatesBfs ==
    /\ pc = "done"
    /\ tc' = [ fn |-> "bfs", limit |-> 0, result |-> true_candidates_bfs(meta, start) ]
    /\ pc' = "tc"
    /\ UNCHANGED << meta, start, board, last, steps, stack, yielded, jobVars, listenVars >>

\* the hybrid true_candidates; limit = HYBRID_LIMIT is the function as built
TrueCandidates(limit) ==
    /\ pc = "done"
    /\ tc' = [ fn |-> "hybrid", limit |-> limit,
               result |-> true_candidates_limit(meta, start, limit) ]
    /\ pc' = "tc"
    /\ UNCHANGED << meta, start, board, last, steps, stack, yielded, jobVars, listenVars >>

NextIter ==
    \/ pc = "new" /\ meta \in GivenMetas
          /\ \E g \in GivenPuzzles(meta, IterGivens) : IterNew(g)
    \/ pc = "new" /\ meta \in {Meta3, Meta3j}
          /\ \E marks \in MarkPuzzles : IterNewMarks(marks)
    \/ pc = "new" /\ meta = Meta4
          /\ IterNew(Corners4)
    \/ IterNext
    \/ IterNextAgain
    \/ TrueCandidatesDfs
    \/ TrueCandidatesBfs
    \/ \E limit \in HybridLimits : TrueCandidates(limit)

SpecIter == InitIter /\ [][NextIter]_vars

(***************************************************************************)
(* The count job: Board::solution_count on a rayon thread and the receive  *)
(* loop of count_solutions. The calls of solution_count_helper started by  *)
(* the parallel fold run in any interleaving.                              *)
(*   wpc = "run"    : inside solution_count_helper, or at the try_send of  *)
(*                    solution_count once the root call has returned       *)
(*   wpc = "full"   : solution_count's try_send returned Full              *)
(*   wpc = "closed" : solution_count returned and dropped the sender       *)
(*   rx = "open"    : count_solutions is in its receive loop               *)
(*   rx = "dropped" : count_solutions saw the cancelled token and returned *)
(*   rx = "done"    : count_solutions sent its terminal Count and returned *)
(***************************************************************************)
\* the only call at the start of a job: the root, on the constructed board
RootTask(b) == [ q \in { << >> } |-> Task("new", b, -1, 0) ]

\* a call of solution_count_helper starts: the root on the board of the job, a
\* branch on a clone of its parent's board with its candidate assigned
Enter(p) ==
    /\ wpc \in {"run", "full"}
    /\ p \in DOMAIN tasks
    /\ tasks[p].st = "new"
    /\ \E e \in { IF p = << >>
                  THEN solution_count_helper(meta, tasks[p].board, token \in cancelled)
                  ELSE fold_branch(meta,
                           assign(meta, tasks[p].board, tasks[p].idx, { Last(p) }),
                           token \in cancelled) } :
          tasks' = IF e.fold THEN spawn(tasks, p, e) ELSE settle(tasks, p, "done", e.ret)
    /\ UNCHANGED << meta, start, board, last, steps, pc, iterVars, listenVars >>
    /\ UNCHANGED << chan, sent, cancelled, token, threshold, cap, wpc, rx, rcount, nonce, out >>

\* every branch of the fold of p has returned: the sum and the threshold test
Join(p) ==
    /\ p \in DOMAIN tasks
    /\ tasks[p].st = "wait"
    /\ \A q \in children(tasks, p) : tasks[q].st = "done"
    /\ tasks' = join(tasks, p, fold_sum(meta, tasks, p), threshold)
    /\ UNCHANGED << meta, start, board, last, steps, pc, iterVars, listenVars >>
    /\ UNCHANGED << chan, sent, cancelled, token, threshold, cap, wpc, rx, rcount, nonce, out >>

\* `tx.try_send(count)` of a helper whose subtotal is above the threshold
TrySend(p) ==
    /\ p \in DOMAIN tasks
    /\ tasks[p].st = "flush"
    /\ \E r \in { try_send(chan, cap, rx = "dropped") } :
          /\ tasks' = IF r = "full" THEN settle(tasks, p, "full", tasks[p].ret)
                      ELSE settle(tasks, p, "done", after_send(tasks[p].ret))
          /\ chan' = IF r = "ok" THEN Append(chan, tasks[p].ret) ELSE chan
          /\ sent' = IF r = "ok" THEN Append(sent, tasks[p].ret) ELSE sent
    /\ UNCHANGED << meta, start, board, last, steps, pc, iterVars, listenVars >>
    /\ UNCHANGED << cancelled, token, threshold, cap, wpc, rx, rcount, nonce, out >>

\* `if token.is_cancelled() { return count; }` inside the helper's retry loop
PollToken(p) ==
    /\ p \in DOMAIN tasks
    /\ tasks[p].st = "full"
    /\ tasks' = settle(tasks, p, after_full(token \in cancelled), tasks[p].ret)
    /\ UNCHANGED << meta, start, board, last, steps, pc, iterVars, listenVars >>
    /\ UNCHANGED << chan, sent, cancelled, token, threshold, cap, wpc, rx, rcount, nonce, out >>

\* solution_count: `tx.try_send(count)` with what the root call returned
FinalSend ==
    /\ wpc = "run"
    /\ << >> \in DOMAIN tasks
    /\ tasks[<< >>].st = "done"
    /\ \E r \in { try_send(chan, cap, rx = "dropped") } :
          /\ wpc' = IF r = "full" THEN "full" ELSE "closed"
          /\ chan' = IF r = "ok" THEN Append(chan, tasks[<< >>].ret) ELSE chan
          /\ sent' = IF r = "ok" THEN Append(sent, tasks[<< >>].ret) ELSE sent
    /\ UNCHANGED << meta, start, board, last, steps, pc, iterVars, listenVars >>
    /\ UNCHANGED << tasks, cancelled, token, threshold, cap, rx, rcount, nonce, out >>

\* solution_count: `if token.is_cancelled() { break; }`
FinalPoll ==
    /\ wpc = "full"
    /\ << >> \in DOMAIN tasks
    /\ tasks[<< >>].st = "done"
    /\ wpc' = IF token \in cancelled THEN "closed" ELSE "run"
    /\ UNCHANGED << meta, start, board, last, steps, pc, iterVars, listenVars >>
    /\ UNCHANGED << tasks, chan, sent, cancelled, token, threshold, cap, rx, rcount, nonce, out >>

\* count_solutions: `engine_rx.recv()` returned Some(n)
Recv ==
    /\ rx = "open"
    /\ chan # << >>
    /\ \E stop \in { token \in cancelled } :
          /\ rx' = IF stop THEN "dropped" ELSE "open"
          /\ chan' = IF stop THEN << >> ELSE Tail(chan)
          /\ rcount' = IF stop THEN rcount ELSE running_total(rcount, Head(chan))
          /\ out' = IF stop THEN out
                    ELSE Append(out, Count(nonce, running_total(rcount, Head(chan)), TRUE))
          /\ hpc' = IF stop /\ hpc = "count" THEN "recv" ELSE hpc
    /\ UNCHANGED << meta, start, board, last, steps, pc, iterVars >>
    /\ UNCHANGED << tasks, sent, cancelled, token, threshold, cap, wpc, nonce >>
    /\ UNCHANGED << script, inbox, ntok, during >>

\* count_solutions: recv returned None (the channel is empty and the sender is
\* dropped); the terminal Count is sent and count_solutions returns
RecvNone ==
    /\ rx = "open"
    /\ chan = << >>
    /\ wpc = "closed"
    /\ rx' = "done"
    /\ out' = Append(out, Count(nonce, rcount, FALSE))
    /\ hpc' = IF hpc = "count" THEN "recv" ELSE hpc
    /\ UNCHANGED << meta, start, board, last, steps, pc, iterVars >>
    /\ UNCHANGED << tasks, chan, sent, cancelled, token, threshold, cap, wpc, rcount, nonce >>
    /\ UNCHANGED << script, inbox, ntok, during >>

(***************************************************************************)
(* SpecCount: count_solutions on a constructed board, with a caller that   *)
(* holds the job's token and may cancel it at any time.                    *)
(***************************************************************************)
\* number of given digits in a puzzle handed to the count job
CountGivens == 1

\* thresholds below the built-in one tried for the helper's flush
MaxLowFlush == 1

\* a channel capacity below the built-in one
SmallChannel == 1

FlushLimits == 0..MaxLowFlush \cup {FLUSH_LIMIT}

Capacities == {SmallChannel, ENGINE_CHANNEL}

CountMetas == { Meta2, Meta3, Meta3j }

\* 2x2 puzzles with at most CountGivens givens; larger puzzles have cell 0 given
\* and at most CountGivens - 1 further givens
CountPuzzles(m) ==
    IF m.size <= 2 THEN GivenPuzzles(m, CountGivens)
    ELSE { g \in GivenPuzzles(m, CountGivens) : g[0] # 0 }

InitCount ==
    /\ meta \in CountMetas
    /\ start = new_with_regions(meta)
    /\ board = start
    /\ last = Called("new", 0, 0, TRUE, FALSE)
    /\ steps = 0
    /\ pc = "new"
    /\ IdleRest

\* count_solutions is called: the job is spawned and the receive loop starts
CountStart(g, lim, c) ==
    /\ pc = "new"
    /\ \E r \in { from_digits(meta, g) } :
          /\ r.ok
          /\ start' = r.b
          /\ tasks' = RootTask(r.b)
    /\ token' = 1
    /\ nonce' = 1
    /\ threshold' = lim
    /\ cap' = c
    /\ wpc' = "run"
    /\ rx' = "open"
    /\ pc' = "count"
    /\ UNCHANGED << meta, board, last, steps, iterVars, listenVars >>
    /\ UNCHANGED << chan, sent, cancelled, rcount, out >>

\* the holder of the token cancels it
Cancel ==
    /\ pc = "count"
    /\ token \notin cancelled
    /\ wpc \in {"run", "full"} \/ rx = "open"
    /\ cancelled' = cancelled \cup {token}
    /\ UNCHANGED << meta, start, board, last, steps, pc, iterVars, listenVars >>
    /\ UNCHANGED << tasks, chan, sent, token, threshold, cap, wpc, rx, rcount, nonce, out >>

NextCount ==
    \/ pc = "new"
          /\ \E g \in CountPuzzles(meta), lim \in FlushLimits, c \in Capacities :
                CountStart(g, lim, c)
    \/ \E p \in DOMAIN tasks : Enter(p)
    \/ \E p \in DOMAIN tasks : Join(p)
    \/ \E p \in DOMAIN tasks : TrySend(p)
    \/ \E p \in DOMAIN tasks : PollToken(p)
    \/ FinalSend
    \/ FinalPoll
    \/ Recv
    \/ RecvNone
    \/ Cancel

SpecCount == InitCount /\ [][NextCount]_vars

(***************************************************************************)
(* SpecListen: one websocket connection. The handler reads one request at  *)
(* a time, creates a CancellationToken for it and awaits process_message;  *)
(* a count request runs its job to the end inside that await.              *)
(*   hpc = "recv"  : the handler is at `ws_rcv.next().await`               *)
(*   hpc = "count" : the handler is inside count_solutions                 *)
(***************************************************************************)
\* number of requests the client sends on the connection
MaxMsgs == 2

CountMsg(n, g) == [ cmd |-> "count", nonce |-> n, data |-> g ]

CancelMsg(n, m) == [ cmd |-> "cancel", nonce |-> n, data |-> [ i \in Cells(m) |-> 0 ] ]

\* what a client may send: up to MaxMsgs count and cancel requests with one nonce,
\* the count requests all for one puzzle
Scripts(m) ==
    UNION { UNION { [ 1..k -> { CountMsg(1, g), CancelMsg(1, m) } ] : k \in 1..MaxMsgs } :
              g \in CountPuzzles(m) }

ListenMetas == { Meta2, Meta3 }

InitListen ==
    /\ meta \in ListenMetas
    /\ start = new_with_regions(meta)
    /\ board = start
    /\ last = Called("new", 0, 0, TRUE, FALSE)
    /\ steps = 0
    /\ pc = "new"
    /\ IdleRest

\* a client connects; scr is what it is going to send, lim and c the threshold and
\* the capacity the engine runs with
Connect(scr, lim, c) ==
    /\ pc = "new"
    /\ script' = scr
    /\ threshold' = lim
    /\ cap' = c
    /\ hpc' = "recv"
    /\ pc' = "listen"
    /\ UNCHANGED << meta, start, board, last, steps, iterVars >>
    /\ UNCHANGED << tasks, chan, sent, cancelled, token, wpc, rx, rcount, nonce, out >>
    /\ UNCHANGED << inbox, ntok, during >>

\* the next request of the client reaches the socket
Arrive ==
    /\ pc = "listen"
    /\ script # << >>
    /\ inbox' = Append(inbox, Head(script))
    /\ script' = Tail(script)
    /\ during' = IF Head(script).cmd = "cancel" /\ rx = "open"
                 THEN during \cup { << Head(script).nonce, token >> }
                 ELSE during
    /\ UNCHANGED << meta, start, board, last, steps, pc, iterVars, jobVars >>
    /\ UNCHANGED << hpc, ntok >>

\* the handler reads a count request: a new token, Board::try_from, and either an
\* Invalid response or the count job, which the handler awaits
HandleCount ==
    /\ hpc = "recv"
    /\ inbox # << >>
    /\ Head(inbox).cmd = "count"
    /\ inbox' = Tail(inbox)
    /\ ntok' = ntok + 1
    /\ \E r \in { try_from(meta, Head(inbox).data) } :
          /\ start' = IF r.ok THEN r.b ELSE start
          /\ tasks' = IF r.ok THEN RootTask(r.b) ELSE tasks
          /\ token' = IF r.ok THEN ntok + 1 ELSE token
          /\ nonce' = IF r.ok THEN Head(inbox).nonce ELSE nonce
          /\ wpc' = IF r.ok THEN "run" ELSE wpc
          /\ rx' = IF r.ok THEN "open" ELSE rx
          /\ chan' = IF r.ok THEN << >> ELSE chan
          /\ sent' = IF r.ok THEN << >> ELSE sent
          /\ rcount' = IF r.ok THEN 0 ELSE rcount
          /\ hpc' = IF r.ok THEN "count" ELSE "recv"
          /\ out' = IF r.ok THEN out ELSE Append(out, Invalid(Head(inbox).nonce))
    /\ UNCHANGED << meta, board, last, steps, pc, iterVars >>
    /\ UNCHANGED << cancelled, threshold, cap, script, during >>

\* the handler reads a cancel request: a new token is created and cancelled, and
\* Cancelled is sent
HandleCancel ==
    /\ hpc = "recv"
    /\ inbox # << >>
    /\ Head(inbox).cmd = "cancel"
    /\ inbox' = Tail(inbox)
    /\ ntok' = ntok + 1
    /\ cancelled' = cancelled \cup { ntok + 1 }
    /\ out' = Append(out, Cancelled(Head(inbox).nonce))
    /\ UNCHANGED << meta, start, board, last, steps, pc, iterVars >>
    /\ UNCHANGED << tasks, chan, sent, token, threshold, cap, wpc, rx, rcount, nonce >>
    /\ UNCHANGED << script, hpc, during >>

NextListen ==
    \/ pc = "new"
          /\ \E scr \in Scripts(meta), lim \in FlushLimits, c \in Capacities :
                Connect(scr, lim, c)
    \/ Arrive
    \/ HandleCount
    \/ HandleCancel
    \/ \E p \in DOMAIN tasks : Enter(p)
    \/ \E p \in DOMAIN tasks : Join(p)
    \/ \E p \in DOMAIN tasks : TrySend(p)
    \/ \E p \in DOMAIN tasks : PollToken(p)
    \/ FinalSend
    \/ FinalPoll
    \/ Recv
    \/ RecvNone

SpecListen == InitListen /\ [][NextListen]_vars

(***************************************************************************)
(* SpecCheck: check_solutions on an f-puzzles grid, with a caller that     *)
(* holds the token and may cancel it at any time. steps counts the calls   *)
(* of solns.next(), and the loop variable count is Len(yielded).           *)
(*   pc = "check"   : at the top of `for count in 0..2`                    *)
(*   pc = "checked" : check_solutions sent its Count and returned          *)
(*   pc = "stopped" : check_solutions saw the cancelled token and returned *)
(*   pc = "invalid" : Board::try_from failed, Invalid was sent             *)
(***************************************************************************)
\* a loop that asks for one solution more
check_loop_ends_late(count) == count >= 3

\* `for count in 0..2` is over
check_loop_ends(count) == count >= 2

InitCheck ==
    /\ meta \in GivenMetas
    /\ start = new_with_regions(meta)
    /\ board = start
    /\ last = Called("new", 0, 0, TRUE, FALSE)
    /\ steps = 0
    /\ pc = "new"
    /\ IdleRest

\* check_solutions is called: Board::try_from, then `b.solutions()`
CheckStart(g) ==
    /\ pc = "new"
    /\ \E r \in { try_from(meta, g) } :
          /\ start' = IF r.ok THEN r.b ELSE start
          /\ stack' = IF r.ok THEN new_stack(meta, r.b) ELSE stack
          /\ out' = IF r.ok THEN out ELSE Append(out, Invalid(1))
          /\ pc' = IF r.ok THEN "check" ELSE "invalid"
    /\ token' = 1
    /\ nonce' = 1
    /\ UNCHANGED << meta, board, last, steps, yielded, tc, listenVars >>
    /\ UNCHANGED << tasks, chan, sent, cancelled, threshold, cap, wpc, rx, rcount >>

\* one round of the loop: the token is polled, then the iterator is asked for a
\* solution; the Count is sent when there is none, or when the loop is over
CheckNext ==
    /\ pc = "check"
    /\ \E stop \in { token \in cancelled }, n \in { next(meta, stack) } :
          /\ pc' = IF stop THEN "stopped"
                   ELSE IF ~n.some \/ check_loop_ends(Len(yielded) + 1) THEN "checked"
                   ELSE "check"
          /\ steps' = IF stop THEN steps ELSE steps + 1
          /\ stack' = IF stop THEN stack ELSE n.stack
          /\ yielded' = IF stop \/ ~n.some THEN yielded ELSE Append(yielded, n.board)
          /\ out' = IF stop THEN out
                    ELSE IF ~n.some THEN Append(out, Count(nonce, Len(yielded), FALSE))
                    ELSE IF check_loop_ends(Len(yielded) + 1)
                    THEN Append(out, Count(nonce, Len(yielded) + 1, FALSE))
                    ELSE out
    /\ UNCHANGED << meta, start, board, last, tc, listenVars >>
    /\ UNCHANGED << tasks, chan, sent, cancelled, token, threshold, cap, wpc, rx, rcount, nonce >>

\* the holder of the token cancels it while check_solutions runs
CancelCheck ==
    /\ pc = "check"
    /\ token \notin cancelled
    /\ cancelled' = cancelled \cup {token}
    /\ UNCHANGED << meta, start, board, last, steps, pc, iterVars, listenVars >>
    /\ UNCHANGED << tasks, chan, sent, token, threshold, cap, wpc, rx, rcount, nonce, out >>

NextCheck ==
    \/ pc = "new" /\ \E g \in GivenPuzzles(meta, IterGivens) : CheckStart(g)
    \/ CheckNext
    \/ CancelCheck

SpecCheck == InitCheck /\ [][NextCheck]_vars

(***************************************************************************)
(* SpecRequest: process_message on one Command request. The base-64 / LZW, *)
(* UTF-16 and JSON decoders are library code: the data of a request is     *)
(* modelled by the step at which its decoding fails ("b64", "utf16",       *)
(* "json") or by the grid it decodes to ("ok").                            *)
(*   pc = "invalid"  : an Invalid response was sent                        *)
(*   pc = "replied"  : a Cancelled response was sent                       *)
(*   pc = "panic"    : process_fpuzzles_data reached todo!()               *)
(*   pc = "check"    : check_solutions runs on the rayon pool              *)
(*   pc = "counting" : count_solutions is awaited                          *)
(***************************************************************************)
Commands == { "solvepath", "step", "solve", "check", "cancel", "count", "truecandidates" }

CommandMsg(n, command, data_type, data) ==
    [ nonce |-> n, cmd |-> command, dataType |-> data_type, data |-> data ]

\* the data of a request: how far its decoding gets, and the grid it decodes to
Data(decode, g) == [ decode |-> decode, grid |-> g ]

\* process_fpuzzles_data up to `let f_puz: FPuzzles = serde_json::from_str(&f_data)?`
decodes(data) == data.decode = "ok"

\* what process_message does with a Command request once the data type and the
\* decoding are known: the branch of the match on the command
command_branch(command) ==
    IF command = "check" THEN "check"
    ELSE IF command = "cancel" THEN "cancel"
    ELSE IF command = "count" THEN "count"
    ELSE "todo"

\* process_message on a Command request: the branch it ends in
process_message(msg) ==
    IF msg.dataType # "fpuzzles" THEN "invalid"
    ELSE IF ~decodes(msg.data) THEN "invalid"
    ELSE command_branch(msg.cmd)

\* grids with the same digit in cells 0 and 1, which no board accepts
ConflictPuzzles(m) ==
    { [ i \in Cells(m) |-> IF i \in {0, 1} THEN v ELSE 0 ] : v \in 1..m.max_val }

RequestPuzzles(m) == CountPuzzles(m) \cup ConflictPuzzles(m)

RequestData(m) ==
    { Data("ok", g) : g \in RequestPuzzles(m) }
        \cup { Data(e, [ i \in Cells(m) |-> 0 ]) : e \in { "b64", "utf16", "json" } }

Requests(m) ==
    { CommandMsg(n, c, t, d) :
        n \in 1..2, c \in Commands, t \in { "fpuzzles", "other" }, d \in RequestData(m) }

InitRequest ==
    /\ meta \in ListenMetas
    /\ start = new_with_regions(meta)
    /\ board = start
    /\ last = Called("new", 0, 0, TRUE, FALSE)
    /\ steps = 0
    /\ pc = "new"
    /\ IdleRest

\* process_message(msg, token, ch_tx) with a new token; lim and c are the threshold
\* and the capacity the engine runs with
Request(msg, lim, c) ==
    /\ pc = "new"
    /\ inbox' = << msg >>
    /\ ntok' = 1
    /\ token' = 1
    /\ nonce' = msg.nonce
    /\ threshold' = lim
    /\ cap' = c
    /\ \E br \in { process_message(msg) }, r \in { try_from(meta, msg.data.grid) } :
          \E run \in { (br = "check" \/ br = "count") /\ r.ok } :
             /\ pc' = IF br = "invalid" THEN "invalid"
                      ELSE IF br = "todo" THEN "panic"
                      ELSE IF br = "cancel" THEN "replied"
                      ELSE IF ~r.ok THEN "invalid"
                      ELSE IF br = "check" THEN "check" ELSE "counting"
             /\ out' = IF br = "invalid" \/ (br \in { "check", "count" } /\ ~r.ok)
                       THEN Append(out, Invalid(msg.nonce))
                       ELSE IF br = "cancel" THEN Append(out, Cancelled(msg.nonce))
                       ELSE out
             /\ cancelled' = IF br = "cancel" THEN cancelled \cup {1} ELSE cancelled
             /\ start' = IF run THEN r.b ELSE start
             /\ stack' = IF run /\ br = "check" THEN new_stack(meta, r.b) ELSE stack
             /\ tasks' = IF run /\ br = "count" THEN RootTask(r.b) ELSE tasks
             /\ wpc' = IF run /\ br = "count" THEN "run" ELSE wpc
             /\ rx' = IF run /\ br = "count" THEN "open" ELSE rx
             /\ hpc' = IF run /\ br = "count" THEN "count" ELSE "recv"
    /\ UNCHANGED << meta, board, last, steps, yielded, tc >>
    /\ UNCHANGED << chan, sent, rcount, script, during >>

NextRequest ==
    \/ pc = "new"
          /\ \E msg \in Requests(meta), lim \in FlushLimits, c \in Capacities :
                Request(msg, lim, c)
    \/ CheckNext
    \/ \E p \in DOMAIN tasks : Enter(p)
    \/ \E p \in DOMAIN tasks : Join(p)
    \/ \E p \in DOMAIN tasks : TrySend(p)
    \/ \E p \in DOMAIN tasks : PollToken(p)
    \/ FinalSend
    \/ FinalPoll
    \/ Recv
    \/ RecvNone

SpecRequest == InitRequest /\ [][NextRequest]_vars

(***************************************************************************)
(* SpecNew: SolutionIterator::new on boards with max_val = size and with   *)
(* max_val > size, followed by calls of next.                              *)
(***************************************************************************)
NewMetas == { Meta2, Meta2x, Meta3 }

InitNew ==
    /\ meta \in NewMetas
    /\ start = new_with_regions(meta)
    /\ board = start
    /\ last = Called("new", 0, 0, TRUE, FALSE)
    /\ steps = 0
    /\ pc = "new"
    /\ IdleRest

NextNew ==
    \/ pc = "new" /\ \E g \in GivenPuzzles(meta, IterGivens) : IterNew(g)
    \/ pc = "new" /\ meta = Meta3 /\ \E marks \in MarkPuzzles : IterNewMarks(marks)
    \/ IterNext
    \/ IterNextAgain

SpecNew == InitNew /\ [][NextNew]_vars

(***************************************************************************)
(* yy_engine/src/lib.rs: the Yin-Yang puzzle.  A YinYang is the record     *)
(* [height, width, data, border]; data maps each cell index to 1, 2 or 3   *)
(* (3 = unknown: both colours possible).                                   *)
(***************************************************************************)
\* the ascending range a, a + step, ... below b (`(a..b).step_by(step)`)
RECURSIVE step_by(_, _, _)
step_by(a, b, step) == IF a >= b THEN << >> ELSE << a >> \o step_by(a + step, b, step)

\* `.rev()` of a sequence
Rev(s) == [ k \in 1..Len(s) |-> s[Len(s) + 1 - k] ]

\* YinYang::new: the empty puzzle and its border
yy_new(height, width) ==
    [ height |-> height,
      width  |-> width,
      data   |-> [ i \in 0..(height * width - 1) |-> 3 ],
      border |-> step_by(0, width, 1)
                 \o step_by(2 * width - 1, height * width, width)
                 \o Rev(step_by((height - 1) * width, height * width - 1, 1))
                 \o Rev(step_by(width, (height - 1) * width, width)) ]

\* the puzzle with cell idx set to v (`self.data[idx] = v`)
yy_with(yy, idx, v) ==
    [ height |-> yy.height, width |-> yy.width, border |-> yy.border,
      data |-> [ i \in DOMAIN yy.data |-> IF i = idx THEN v ELSE yy.data[i] ] ]

\* YinYang::from_string on a string of the characters 0, 1, 2 (given by their
\* digits): ok = FALSE is BadDimensions
yy_from_string(height, width, repr) ==
    IF height * width # Len(repr) THEN [ ok |-> FALSE, yy |-> yy_new(height, width) ]
    ELSE [ ok |-> TRUE,
           yy |-> [ height |-> height, width |-> width,
                    border |-> yy_new(height, width).border,
                    data |-> [ i \in 0..(height * width - 1) |->
                                 IF repr[i + 1] = 0 THEN 3 ELSE repr[i + 1] ] ] ]

\* adjacent_cells without the cell below
adjacent_cells_no_down(yy, idx) ==
    (IF idx \div yy.width > 0 THEN << idx - yy.width >> ELSE << >>)
    \o (IF idx % yy.width > 0 THEN << idx - 1 >> ELSE << >>)
    \o (IF idx % yy.width < yy.width - 1 THEN << idx + 1 >> ELSE << >>)

\* adjacent_cells: the orthogonal neighbours in the order up, left, right, down
adjacent_cells(yy, idx) ==
    (IF idx \div yy.width > 0 THEN << idx - yy.width >> ELSE << >>)
    \o (IF idx % yy.width > 0 THEN << idx - 1 >> ELSE << >>)
    \o (IF idx % yy.width < yy.width - 1 THEN << idx + 1 >> ELSE << >>)
    \o (IF idx \div yy.width < yy.height - 1 THEN << idx + yy.width >> ELSE << >>)

\* the first index from i on whose cell has the colour and is not shaded; -1 if none
RECURSIVE first_unshaded(_, _, _, _)
first_unshaded(yy, color, shaded, i) ==
    IF i >= yy.height * yy.width THEN -1
    ELSE IF yy.data[i] = color /\ i \notin shaded THEN i
    ELSE first_unshaded(yy, color, shaded, i + 1)

\* the neighbours of a popped cell that are pushed on the queue
RECURSIVE flood_push(_, _, _, _)
flood_push(yy, color, shaded, adjacent) ==
    IF adjacent = << >> THEN << >>
    ELSE (IF Head(adjacent) \notin shaded /\ yy.data[Head(adjacent)] = color
          THEN << Head(adjacent) >> ELSE << >>)
         \o flood_push(yy, color, shaded, Tail(adjacent))

\* the `while let Some(i) = shaded_queue.pop_front()` loop of check_helper
RECURSIVE flood(_, _, _, _, _)
flood(yy, color, queue, shaded, way_out) ==
    IF queue = << >> THEN [ shaded |-> shaded, way_out |-> way_out ]
    ELSE flood(yy, color,
               Tail(queue) \o flood_push(yy, color, shaded \cup {Head(queue)},
                                         adjacent_cells(yy, Head(queue))),
               shaded \cup {Head(queue)},
               way_out \/ \E j \in Range(adjacent_cells(yy, Head(queue))) :
                              j \notin shaded \cup {Head(queue)} /\ yy.data[j] = 3)

RECURSIVE check_helper(_, _, _)
\* check_helper after the flood f from the first cell of the colour
check_flooded(yy, color, starting_idx, f) ==
    IF ~f.way_out /\ \E idx \in DOMAIN yy.data : yy.data[idx] = color /\ idx \notin f.shaded
    THEN FALSE
    ELSE IF first_unshaded(yy, color, f.shaded, starting_idx) = -1 THEN TRUE
    ELSE check_helper(yy, color, first_unshaded(yy, color, f.shaded, starting_idx))

\* check_helper, entered with nothing shaded and an empty queue
check_helper(yy, color, starting_idx) ==
    IF first_unshaded(yy, color, {}, starting_idx) = -1 THEN TRUE
    ELSE check_flooded(yy, color, starting_idx,
             flood(yy, color, << first_unshaded(yy, color, {}, starting_idx) >>, {}, FALSE))

\* check_two_by_two: no 2x2 block with four cells of one colour
check_two_by_two(yy) ==
    \A i \in 0..(yy.height - 2) : \A j \in 0..(yy.width - 2) :
        \A c \in {1, 2} :
            Cardinality({ o \in {0, 1, yy.width, yy.width + 1} :
                            yy.data[i * yy.width + j + o] = c }) # 4

\* YinYang::check
check(yy) == check_helper(yy, 1, 0) /\ check_helper(yy, 2, 0) /\ check_two_by_two(yy)

\* Solvable::assign for YinYang: the puzzle left behind and the bool returned
yy_assign(yy, idx, g) == [ ok |-> check(yy_with(yy, idx, g)), yy |-> yy_with(yy, idx, g) ]

\* Solvable::next_idx_to_guess for YinYang: the first unknown cell (-1 for none)
yy_next_idx_to_guess(yy) ==
    IF \A i \in DOMAIN yy.data : yy.data[i] # 3 THEN -1
    ELSE Min({ i \in DOMAIN yy.data : yy.data[i] = 3 })

\* Solvable::guesses for YinYang
yy_guesses(yy, idx) == << 1, 2 >>

\* Solvable::solved for YinYang
yy_solved(yy) == (\A i \in DOMAIN yy.data : yy.data[i] # 3) /\ check(yy)

(***************************************************************************)
(* SpecYinYang: a Yin-Yang puzzle read from a string, then calls of        *)
(* solved() and assign().  `board` holds the YinYang, `meta` its           *)
(* dimensions.                                                             *)
(*   pc = "new" : the empty puzzle                                         *)
(*   pc = "yy"  : the puzzle was read by from_string                       *)
(***************************************************************************)
\* cells a puzzle string may leave unknown
MaxUnknown == 1

\* calls made on a puzzle
MaxYyOps == 2

YyDims == ((1..3) \X (1..3)) \cup { << 2, 4 >>, << 4, 2 >>, << 3, 4 >>, << 4, 3 >> }

\* the strings over 0, 1, 2 of length n with at most MaxUnknown zeros
YyStrings(n) ==
    { s \in [ 1..n -> 0..2 ] : Cardinality({ k \in 1..n : s[k] = 0 }) <= MaxUnknown }

InitYinYang ==
    /\ meta \in { [ height |-> d[1], width |-> d[2] ] : d \in YyDims }
    /\ start = yy_new(meta.height, meta.width)
    /\ board = start
    /\ last = Called("new", 0, 0, TRUE, FALSE)
    /\ steps = 0
    /\ pc = "new"
    /\ IdleRest

\* YinYang::from_string(height, width, repr)
YyFromString(repr) ==
    /\ pc = "new"
    /\ \E r \in { yy_from_string(meta.height, meta.width, repr) } :
          /\ r.ok
          /\ start' = r.yy
          /\ board' = r.yy
    /\ last' = Called("from_string", 0, 0, TRUE, FALSE)
    /\ pc' = "yy"
    /\ UNCHANGED << meta, steps, iterVars, jobVars, listenVars >>

\* Solvable::solved
YySolved ==
    /\ pc = "yy"
    /\ steps < MaxYyOps
    /\ last' = Called("solved", 0, 0, yy_solved(board), FALSE)
    /\ steps' = steps + 1
    /\ UNCHANGED << meta, start, board, pc, iterVars, jobVars, listenVars >>

\* Solvable::assign(idx, g) on the cell offered by next_idx_to_guess
YyAssign(idx, g) ==
    /\ pc = "yy"
    /\ steps < MaxYyOps
    /\ \E a \in { yy_assign(board, idx, g) } :
          /\ board' = a.yy
          /\ last' = Called("assign", idx, g, a.ok, FALSE)
    /\ steps' = steps + 1
    /\ UNCHANGED << meta, start, pc, iterVars, jobVars, listenVars >>

NextYinYang ==
    \/ pc = "new" /\ \E repr \in YyStrings(meta.height * meta.width) : YyFromString(repr)
    \/ YySolved
    \/ pc = "yy" /\ \E idx \in { yy_next_idx_to_guess(board) } \ {-1} :
          \E g \in Range(yy_guesses(board, idx)) : YyAssign(idx, g)

SpecYinYang == InitYinYang /\ [][NextYinYang]_vars

(***************************************************************************)
(* SpecMax: Board::solution_count_max.  The worker is the count job above  *)
(* (solution_count on a rayon thread); the caller receives in two loops.   *)
(* `last.value` holds max_count and `last.ok` tells that the function has  *)
(* returned `rcount`.                                                      *)
(*   rx = "open"  : in the first receive loop                              *)
(*   rx = "drain" : in the second receive loop                             *)
(*   rx = "done"  : solution_count_max returned                            *)
(***************************************************************************)
\* the largest max_count handed to solution_count_max
MaxCountArg == 3

\* `if count >= max_count`
exceeds_or_equal(count, max_count) == count >= max_count

\* `if count > max_count`
exceeds(count, max_count) == count > max_count

InitMax ==
    /\ meta \in CountMetas
    /\ start = new_with_regions(meta)
    /\ board = start
    /\ last = Called("new", 0, 0, TRUE, FALSE)
    /\ steps = 0
    /\ pc = "new"
    /\ IdleRest

\* solution_count_max(max_count) is called: channel, token, clone, rayon::spawn
MaxStart(g, lim, c, max_count) ==
    /\ pc = "new"
    /\ \E r \in { from_digits(meta, g) } :
          /\ r.ok
          /\ start' = r.b
          /\ tasks' = RootTask(r.b)
    /\ last' = Called("solution_count_max", 0, max_count, FALSE, FALSE)
    /\ token' = 1
    /\ threshold' = lim
    /\ cap' = c
    /\ wpc' = "run"
    /\ rx' = "open"
    /\ pc' = "max"
    /\ UNCHANGED << meta, board, steps, iterVars, listenVars >>
    /\ UNCHANGED << chan, sent, cancelled, rcount, nonce, out >>

\* first loop: recv returned Some(n)
MaxRecv ==
    /\ pc = "max" /\ rx = "open"
    /\ chan # << >>
    /\ \E over \in { exceeds(running_total(rcount, Head(chan)), last.value) } :
          /\ cancelled' = IF over THEN cancelled \cup {token} ELSE cancelled
          /\ rx' = IF over THEN "drain" ELSE "open"
    /\ rcount' = running_total(rcount, Head(chan))
    /\ chan' = Tail(chan)
    /\ UNCHANGED << meta, start, board, last, steps, pc, iterVars, listenVars >>
    /\ UNCHANGED << tasks, sent, token, threshold, cap, wpc, nonce, out >>

\* first loop: recv returned None
MaxRecvNone ==
    /\ pc = "max" /\ rx = "open"
    /\ chan = << >> /\ wpc = "closed"
    /\ rx' = "drain"
    /\ UNCHANGED << meta, start, board, last, steps, pc, iterVars, listenVars >>
    /\ UNCHANGED << tasks, chan, sent, cancelled, token, threshold, cap, wpc, rcount, nonce, out >>

\* second loop: recv returned Some(n)
MaxDrain ==
    /\ pc = "max" /\ rx = "drain"
    /\ chan # << >>
    /\ rcount' = running_total(rcount, Head(chan))
    /\ chan' = Tail(chan)
    /\ UNCHANGED << meta, start, board, last, steps, pc, iterVars, listenVars >>
    /\ UNCHANGED << tasks, sent, cancelled, token, threshold, cap, wpc, rx, nonce, out >>

\* second loop: recv returned None; solution_count_max returns count
MaxReturn ==
    /\ pc = "max" /\ rx = "drain"
    /\ chan = << >> /\ wpc = "closed"
    /\ rx' = "done"
    /\ last' = Called("solution_count_max", 0, last.value, TRUE, FALSE)
    /\ UNCHANGED << meta, start, board, steps, pc, iterVars, listenVars >>
    /\ UNCHANGED << tasks, chan, sent, cancelled, token, threshold, cap, wpc, rcount, nonce, out >>

NextMax ==
    \/ pc = "new"
          /\ \E g \in CountPuzzles(meta), lim \in FlushLimits, c \in Capacities :
                \E max_count \in 0..MaxCountArg : MaxStart(g, lim, c, max_count)
    \/ pc = "max" /\ \E p \in DOMAIN tasks : Enter(p)
    \/ pc = "max" /\ \E p \in DOMAIN tasks : Join(p)
    \/ pc = "max" /\ \E p \in DOMAIN tasks : TrySend(p)
    \/ pc = "max" /\ \E p \in DOMAIN tasks : PollToken(p)
    \/ pc = "max" /\ FinalSend
    \/ pc = "max" /\ FinalPoll
    \/ MaxRecv
    \/ MaxRecvNone
    \/ MaxDrain
    \/ MaxReturn

SpecMax == InitMax /\ [][NextMax]_vars

\* some call of the helper is waiting to start (the guard of Enter)
CanEnter == pc = "max" /\ wpc \in {"run", "full"} /\ \E p \in DOMAIN tasks : tasks[p].st = "new"

\* the caller's task and the worker's threads keep running: a step that stays
\* possible is taken (for Enter the condition is written with its guard)
FairMax ==
    /\ WF_vars(MaxRecv) /\ WF_vars(MaxRecvNone) /\ WF_vars(MaxDrain) /\ WF_vars(MaxReturn)
    /\ ([]<>(~CanEnter) \/ []<><< pc = "max" /\ \E p \in DOMAIN tasks : Enter(p) >>_vars)
    /\ WF_vars(pc = "max" /\ \E p \in DOMAIN tasks : Join(p))
    /\ WF_vars(pc = "max" /\ \E p \in DOMAIN tasks : TrySend(p))
    /\ WF_vars(pc = "max" /\ \E p \in DOMAIN tasks : PollToken(p))
    /\ WF_vars(pc = "max" /\ FinalSend)
    /\ WF_vars(pc = "max" /\ FinalPoll)

SpecMaxFair == SpecMax /\ FairMax

(***************************************************************************)
(* SpecCancelled: the count job as in SpecCount, started either with a     *)
(* fresh token or with a token that is already cancelled when              *)
(* solution_count is called.                                               *)
(*   pc = "pre" : the token was cancelled before solution_count was called *)
(***************************************************************************)
\* solution_count is called with a token cancelled beforehand
StartCancelled(g, lim, c) ==
    /\ pc = "new"
    /\ \E r \in { from_digits(meta, g) } :
          /\ r.ok
          /\ start' = r.b
          /\ tasks' = RootTask(r.b)
    /\ token' = 1
    /\ cancelled' = {1}
    /\ nonce' = 1
    /\ threshold' = lim
    /\ cap' = c
    /\ wpc' = "run"
    /\ rx' = "open"
    /\ pc' = "pre"
    /\ UNCHANGED << meta, board, last, steps, iterVars, listenVars >>
    /\ UNCHANGED << chan, sent, rcount, out >>

NextCancelled ==
    \/ pc = "new"
          /\ \E g \in CountPuzzles(meta), lim \in FlushLimits, c \in Capacities :
                CountStart(g, lim, c)
    \/ pc = "new"
          /\ \E g \in CountPuzzles(meta), lim \in FlushLimits, c \in Capacities :
                StartCancelled(g, lim, c)
    \/ \E p \in DOMAIN tasks : Enter(p)
    \/ \E p \in DOMAIN tasks : Join(p)
    \/ \E p \in DOMAIN tasks : TrySend(p)
    \/ \E p \in DOMAIN tasks : PollToken(p)
    \/ FinalSend
    \/ FinalPoll
    \/ Recv
    \/ RecvNone
    \/ Cancel

SpecCancelled == InitCount /\ [][NextCancelled]_vars

(***************************************************************************)
(* SpecCancelledFair: the count job with threads that keep running.  Only   *)
(* the worker's steps are fair; the receiver may stop taking values.        *)
(***************************************************************************)
CanEnterJob ==
    /\ pc \in {"count", "pre"} /\ wpc \in {"run", "full"}
    /\ \E p \in DOMAIN tasks : tasks[p].st = "new"

\* the thread pool runs every call that can take a step (for Enter the
\* condition is written with its guard)
FairWorker ==
    /\ ([]<>(~CanEnterJob) \/ []<><< \E p \in DOMAIN tasks : Enter(p) >>_vars)
    /\ WF_vars(\E p \in DOMAIN tasks : Join(p))
    /\ WF_vars(\E p \in DOMAIN tasks : TrySend(p))
    /\ WF_vars(\E p \in DOMAIN tasks : PollToken(p))
    /\ WF_vars(FinalSend)
    /\ WF_vars(FinalPoll)

SpecCancelledFair == SpecCancelled /\ FairWorker

(***************************************************************************)
(* Yin-Yang deductions.  A result is [ok, ded, yy]: ok = FALSE is           *)
(* Err(Contradiction), ded = TRUE is Deduction::Deduction, yy the puzzle    *)
(* as the call left it.                                                     *)
(***************************************************************************)
Yd(ok, ded, yy) == [ ok |-> ok, ded |-> ded, yy |-> yy ]

\* the four cells of the 2x2 block at idx, as `[0, 1, width, width + 1]`
block(yy, idx) == << idx, idx + 1, idx + yy.width, idx + yy.width + 1 >>

\* the last cell of the block that is neither 1 nor 2
zero_idx(yy, idx) ==
    block(yy, idx)[ CHOOSE k \in 1..4 :
                      /\ yy.data[block(yy, idx)[k]] \notin {1, 2}
                      /\ \A j \in (k + 1)..4 : yy.data[block(yy, idx)[j]] \in {1, 2} ]

\* how many cells of the block hold colour c
colour_count(yy, idx, c) == Cardinality({ k \in 1..4 : yy.data[block(yy, idx)[k]] = c })

\* a two_by_two that completes a block of three with the same colour
two_by_two_same(yy, idx) ==
    IF colour_count(yy, idx, 1) = 3 /\ colour_count(yy, idx, 2) = 0
    THEN Yd(TRUE, TRUE, yy_with(yy, zero_idx(yy, idx), 1))
    ELSE IF colour_count(yy, idx, 2) = 3 /\ colour_count(yy, idx, 1) = 0
    THEN Yd(TRUE, TRUE, yy_with(yy, zero_idx(yy, idx), 2))
    ELSE Yd(TRUE, FALSE, yy)

\* two_by_two(idx)
two_by_two(yy, idx) ==
    IF colour_count(yy, idx, 1) = 3 /\ colour_count(yy, idx, 2) = 0
    THEN Yd(TRUE, TRUE, yy_with(yy, zero_idx(yy, idx), 2))
    ELSE IF colour_count(yy, idx, 2) = 3 /\ colour_count(yy, idx, 1) = 0
    THEN Yd(TRUE, TRUE, yy_with(yy, zero_idx(yy, idx), 1))
    ELSE Yd(TRUE, FALSE, yy)

\* the top-left cells of the 2x2 blocks, in the order of the two nested loops
blocks(yy) ==
    [ k \in 1..((yy.height - 1) * (yy.width - 1)) |->
        ((k - 1) \div (yy.width - 1)) * yy.width + ((k - 1) % (yy.width - 1)) ]

\* `ret &= r`, then the rest of the loop over the blocks
RECURSIVE two_by_two_rest(_, _, _)
two_by_two_step(r, idxs, ret) == two_by_two_rest(r.yy, idxs, ret \/ r.ded)

two_by_two_rest(yy, idxs, ret) ==
    IF idxs = << >> THEN Yd(TRUE, ret, yy)
    ELSE two_by_two_step(two_by_two(yy, Head(idxs)), Tail(idxs), ret)

\* two_by_two_all
two_by_two_all(yy) == two_by_two_rest(yy, blocks(yy), FALSE)

\* checkerboard on the block cell1 cell2 / cell3 cell4 at idx
checkerboard_cells(yy, idx, cell1, cell2, cell3, cell4) ==
    IF cell1 = cell4
    THEN IF cell2 = cell3 /\ cell2 = 3 - cell1 THEN Yd(FALSE, FALSE, yy)
         ELSE IF cell2 = 3 - cell1 /\ cell3 = 3
              THEN Yd(TRUE, TRUE, yy_with(yy, idx + yy.width, cell1))
         ELSE IF cell3 = 3 - cell1 /\ cell2 = 3
              THEN Yd(TRUE, TRUE, yy_with(yy, idx + 1, cell1))
         ELSE Yd(TRUE, FALSE, yy)
    ELSE IF cell2 = cell3
    THEN IF cell1 = 3 - cell2 /\ cell4 = 3
              THEN Yd(TRUE, TRUE, yy_with(yy, idx + yy.width + 1, cell2))
         ELSE IF cell4 = 3 - cell2 /\ cell1 = 3
              THEN Yd(TRUE, TRUE, yy_with(yy, idx, cell2))
         ELSE Yd(TRUE, FALSE, yy)
    ELSE Yd(TRUE, FALSE, yy)

\* checkerboard(idx)
checkerboard(yy, idx) ==
    checkerboard_cells(yy, idx, yy.data[idx], yy.data[idx + 1],
                       yy.data[idx + yy.width], yy.data[idx + yy.width + 1])

\* `ret &= self.checkerboard(..)?`, then the rest of the loop over the blocks
RECURSIVE checkerboard_rest(_, _, _)
checkerboard_step(r, idxs, ret) ==
    IF ~r.ok THEN r ELSE checkerboard_rest(r.yy, idxs, ret \/ r.ded)

checkerboard_rest(yy, idxs, ret) ==
    IF idxs = << >> THEN Yd(TRUE, ret, yy)
    ELSE checkerboard_step(checkerboard(yy, Head(idxs)), Tail(idxs), ret)

\* checkerboard_all
checkerboard_all(yy) == checkerboard_rest(yy, blocks(yy), FALSE)

\* `self.data[self.border[i]]`, i counted from 0
bd(yy, i) == yy.data[yy.border[i + 1]]

\* the first position at or after from whose cell satisfies want, -1 for none
\* (usize::MAX in the source)
first_pos(yy, from, want(_)) ==
    IF \E i \in from..(Len(yy.border) - 1) : want(bd(yy, i))
    THEN Min({ i \in from..(Len(yy.border) - 1) : want(bd(yy, i)) })
    ELSE -1

\* `for j in a..b { self.data[self.border[j]] = c }`
fill(yy, a, b, c) ==
    [ height |-> yy.height, width |-> yy.width, border |-> yy.border,
      data |-> [ x \in DOMAIN yy.data |->
                   IF \E j \in a..(b - 1) : yy.border[j + 1] = x THEN c ELSE yy.data[x] ] ]

\* the loop between the first cell of the first colour and the first cell of
\* the second colour: gaps between cells of the first colour are filled
RECURSIVE border_first(_, _, _, _, _, _)
border_first(yy, i, stop, last_first, first_color, ret) ==
    IF i >= stop THEN Yd(TRUE, ret, yy)
    ELSE IF bd(yy, i) = first_color
    THEN border_first(fill(yy, last_first + 1, i, first_color), i + 1, stop, i,
                      first_color, ret \/ (last_first + 1 < i))
    ELSE border_first(yy, i + 1, stop, last_first, first_color, ret)

\* the loop after the first cell of the second colour: gaps between cells of
\* the second colour are filled until a cell of the first colour is met; pos is
\* the position of that cell (-1 for none)
RECURSIVE border_second(_, _, _, _, _)
border_second(yy, i, last_second, first_color, ret) ==
    IF i >= Len(yy.border) THEN [ yy |-> yy, ded |-> ret, pos |-> -1 ]
    ELSE IF bd(yy, i) = first_color THEN [ yy |-> yy, ded |-> ret, pos |-> i ]
    ELSE IF bd(yy, i) = 3 - first_color
    THEN border_second(fill(yy, last_second + 1, i, 3 - first_color), i + 1, i,
                       first_color, ret \/ (last_second + 1 < i))
    ELSE border_second(yy, i + 1, last_second, first_color, ret)

\* the loop over positions i..stop-1 that sets every cell to the first colour;
\* strict: a cell of the second colour is a contradiction
RECURSIVE border_wrap(_, _, _, _, _, _)
border_wrap(yy, i, stop, first_color, strict, ret) ==
    IF i >= stop THEN Yd(TRUE, ret, yy)
    ELSE IF strict /\ bd(yy, i) = 3 - first_color THEN Yd(FALSE, ret, yy)
    ELSE IF bd(yy, i) # first_color
    THEN border_wrap(yy_with(yy, yy.border[i + 1], first_color), i + 1, stop,
                     first_color, strict, TRUE)
    ELSE border_wrap(yy, i + 1, stop, first_color, strict, ret)

\* the end of deduce_border, after the cell of the first colour at position
\* s.pos that follows the cells of the second colour
border_close_head(r, first_color_idx, first_color) ==
    IF ~r.ok THEN r ELSE border_wrap(r.yy, 0, first_color_idx, first_color, FALSE, r.ded)

border_close(s, first_color_idx, first_color) ==
    IF s.pos = -1 THEN Yd(TRUE, s.ded, s.yy)
    ELSE border_close_head(
             border_wrap(s.yy, s.pos + 1, Len(s.yy.border), first_color, TRUE, s.ded),
             first_color_idx, first_color)

border_after_first(r, first_color_idx, second_color_idx, first_color) ==
    border_close(border_second(r.yy, second_color_idx + 1, second_color_idx,
                               first_color, r.ded),
                 first_color_idx, first_color)

border_with_second(yy, first_color_idx, second_color_idx, first_color) ==
    IF second_color_idx = -1 THEN Yd(TRUE, FALSE, yy)
    ELSE border_after_first(
             border_first(yy, first_color_idx + 1, second_color_idx, first_color_idx,
                          first_color, FALSE),
             first_color_idx, second_color_idx, first_color)

border_with_first(yy, first_color_idx) ==
    IF first_color_idx = -1 THEN Yd(TRUE, FALSE, yy)
    ELSE border_with_second(yy, first_color_idx,
             first_pos(yy, first_color_idx + 1,
                       LAMBDA v : v = 3 - bd(yy, first_color_idx)),
             bd(yy, first_color_idx))

\* a deduce_border that never looks at the border
deduce_border_none(yy) == Yd(TRUE, FALSE, yy)

\* deduce_border
deduce_border(yy) == border_with_first(yy, first_pos(yy, 0, LAMBDA v : v # 3))

\* `while self.two_by_two_all() == Deduction::Deduction { ret = Deduction }`
RECURSIVE two_by_two_while(_, _)
two_by_two_again(r, ret) == IF r.ded THEN two_by_two_while(r.yy, TRUE) ELSE Yd(TRUE, ret, r.yy)

two_by_two_while(yy, ret) == two_by_two_again(two_by_two_all(yy), ret)

\* the loop of deduce
RECURSIVE deduce_loop(_, _)
deduce_after_border(b, ret) ==
    IF ~b.ok THEN Yd(FALSE, ret, b.yy)
    ELSE IF ~b.ded THEN Yd(TRUE, ret, b.yy)
    ELSE deduce_loop(b.yy, TRUE)

deduce_after_checkerboard(c, ret) ==
    IF ~c.ok THEN Yd(FALSE, ret, c.yy)
    ELSE IF ~c.ded THEN Yd(TRUE, ret, c.yy)
    ELSE deduce_after_border(deduce_border(c.yy), ret)

deduce_after_two_by_two(t) == deduce_after_checkerboard(checkerboard_all(t.yy), t.ded)

deduce_loop(yy, ret) == deduce_after_two_by_two(two_by_two_while(yy, ret))

deduce_start(b) == IF ~b.ok THEN b ELSE deduce_loop(b.yy, b.ded)

\* YinYang::deduce
yy_deduce(yy) == deduce_start(deduce_border(yy))

\* Solvable::indices
yy_indices(yy) == yy.border \o [ k \in 1..(yy.height * yy.width) |-> k - 1 ]

(***************************************************************************)
(* SpecYyDeduce: deduce on partial Yin-Yang grids, then one more call of a  *)
(* rule on the grid deduce left.                                            *)
(***************************************************************************)
\* number of cells up to which every partial grid is an input
MaxFullCells == 9

\* number of unknown cells of the inputs on larger grids
MaxErased == 2

DeduceDims == ((1..3) \X (1..3)) \cup { << 2, 4 >>, << 4, 2 >>, << 3, 4 >>, << 4, 3 >> }

\* the strings over 0, 1, 2 of length n: all of them on small grids, those
\* with at most MaxErased zeros on larger ones
DeduceStrings(n) ==
    IF n <= MaxFullCells THEN [ 1..n -> 0..2 ]
    ELSE { s \in [ 1..n -> 0..2 ] : Cardinality({ k \in 1..n : s[k] = 0 }) <= MaxErased }

InitYyDeduce ==
    /\ meta \in { [ height |-> d[1], width |-> d[2] ] : d \in DeduceDims }
    /\ start = yy_new(meta.height, meta.width)
    /\ board = start
    /\ last = Called("new", 0, 0, TRUE, FALSE)
    /\ steps = 0
    /\ pc = "new"
    /\ IdleRest

\* YinYang::deduce on the puzzle as from_string built it
YdDeduce ==
    /\ pc = "yy"
    /\ \E r \in { yy_deduce(board) } :
          /\ board' = r.yy
          /\ last' = Called("deduce", 0, 0, r.ok, r.ded)
    /\ pc' = "deduced"
    /\ UNCHANGED << meta, start, steps, iterVars, jobVars, listenVars >>

\* one of the rules, called by name
yy_rule(rule, yy) ==
    IF rule = "two_by_two_all" THEN two_by_two_all(yy)
    ELSE IF rule = "checkerboard_all" THEN checkerboard_all(yy)
    ELSE IF rule = "deduce_border" THEN deduce_border(yy)
    ELSE yy_deduce(yy)

YdRules == { "two_by_two_all", "checkerboard_all", "deduce_border", "deduce" }

\* a rule is applied to the puzzle a successful deduce left
YdRule(rule) ==
    /\ pc = "deduced"
    /\ last.ok
    /\ \E r \in { yy_rule(rule, board) } :
          /\ board' = r.yy
          /\ last' = Called(rule, 0, 0, r.ok, r.ded)
    /\ pc' = "again"
    /\ UNCHANGED << meta, start, steps, iterVars, jobVars, listenVars >>

\* Solvable::indices on the puzzle as from_string built it
YdIndices ==
    /\ pc = "yy"
    /\ yielded' = yy_indices(board)
    /\ last' = Called("indices", 0, 0, TRUE, FALSE)
    /\ pc' = "indices"
    /\ UNCHANGED << meta, start, board, steps, stack, tc, jobVars, listenVars >>

NextYyDeduce ==
    \/ pc = "new" /\ \E repr \in DeduceStrings(meta.height * meta.width) : YyFromString(repr)
    \/ YdDeduce
    \/ \E rule \in YdRules : YdRule(rule)
    \/ YdIndices

SpecYyDeduce == InitYyDeduce /\ [][NextYyDeduce]_vars

(***************************************************************************)
(* SpecRegions: Board::new(size, max_val) on sizes around the supported     *)
(* range.  Before the call meta holds the two arguments.                    *)
(***************************************************************************)
\* largest size and largest max_val passed to Board::new
MaxSizeArg == 18
MaxValArg == 20

\* what Board::new returned: err is "none", "OutOfBounds" or "MaxTooLarge"
NewResult(size, max_val, err) ==
    [ op |-> "new", idx |-> size, value |-> max_val, ok |-> err = "none",
      elim |-> FALSE, err |-> err ]

\* build_default_regions: `if size == 0 || size > DIMENSIONS.len()`
out_of_bounds(size) == size = 0 \/ size > Len(DIMENSIONS)

\* Board::new: `build_default_regions(size)?`, then new_with_regions
board_new(size, max_val) ==
    IF out_of_bounds(size) THEN NewResult(size, max_val, "OutOfBounds")
    ELSE IF max_val < size THEN NewResult(size, max_val, "MaxTooLarge")
    ELSE NewResult(size, max_val, "none")

InitRegions ==
    /\ meta \in [ size : 0..MaxSizeArg, max_val : 0..MaxValArg ]
    /\ start = NoBoard
    /\ board = NoBoard
    /\ last = Called("none", 0, 0, TRUE, FALSE)
    /\ steps = 0
    /\ pc = "args"
    /\ IdleRest

\* Board::new(meta.size, meta.max_val)
BoardNew ==
    /\ pc = "args"
    /\ \E r \in { board_new(meta.size, meta.max_val) } :
          /\ last' = r
          /\ meta' = IF r.ok THEN Meta(meta.size, meta.max_val, build_default_regions(meta.size))
                     ELSE meta
          /\ start' = IF r.ok THEN new_with_regions(meta) ELSE NoBoard
    /\ board' = start'
    /\ pc' = "built"
    /\ UNCHANGED << steps, iterVars, jobVars, listenVars >>

NextRegions == BoardNew

SpecRegions == InitRegions /\ [][NextRegions]_vars

(***************************************************************************)
(* constraints.rs check_quad, and SpecQuad: check_quad on grids of solved   *)
(* cells.  Masks are sets of digits.                                        *)
(***************************************************************************)
\* the loop of check_quad over the four cells: seen and seen_twice
RECURSIVE quad_scan(_, _, _, _)
quad_scan(grid, idxs, seen, seen_twice) ==
    IF idxs = << >> THEN [ seen |-> seen, seen_twice |-> seen_twice ]
    ELSE quad_scan(grid, Tail(idxs),
                   \* seen ^= v - (v & seen_twice)
                   (seen \ (grid[Head(idxs)] \ seen_twice))
                       \cup ((grid[Head(idxs)] \ seen_twice) \ seen),
                   \* seen_twice |= seen & v
                   seen_twice \cup (seen \cap grid[Head(idxs)]))

\* the final test of check_quad
quad_test(s, single, double) ==
    /\ (s.seen \cup s.seen_twice) \cap single = single
    /\ s.seen_twice \cap double = double

\* a check_quad that asks the digits of double to occur once only
check_quad_once(idx, single, double, size, grid) ==
    quad_test(quad_scan(grid, << idx, idx + 1, idx + size, idx + size + 1 >>, {}, {}),
              single \cup double, {})

\* check_quad(idx, single, double, size, grid)
check_quad(idx, single, double, size, grid) ==
    quad_test(quad_scan(grid, << idx, idx + 1, idx + size, idx + size + 1 >>, {}, {}),
              single, double)

\* digits of the grids of two rows; grids of three rows use one digit less
QuadDigits == 3

QuadSizes == { 2, 3 }

\* what check_quad was called with and what it returned
Quad(idx, single, double, ok) ==
    [ op |-> "check_quad", idx |-> idx, value |-> 0, ok |-> ok, elim |-> FALSE,
      single |-> single, double |-> double ]

\* a grid of solved cells, each holding one digit
InitQuad ==
    /\ meta \in { [ size |-> s, max_val |-> QuadDigits + 2 - s ] : s \in QuadSizes }
    /\ start \in { [ grid |-> [ i \in Cells(meta) |-> { g[i] } ], solved |-> {}, used |-> {} ] :
                     g \in [ Cells(meta) -> 1..meta.max_val ] }
    /\ board = start
    /\ last = Called("none", 0, 0, TRUE, FALSE)
    /\ steps = 0
    /\ pc = "grid"
    /\ IdleRest

\* check_quad(idx, single, double, size, grid)
CheckQuad(idx, single, double) ==
    /\ pc = "grid"
    /\ last' = Quad(idx, single, double,
                    check_quad(idx, single, double, meta.size, board.grid))
    /\ pc' = "quad"
    /\ UNCHANGED << meta, start, board, steps, iterVars, jobVars, listenVars >>

\* the top-left cells of the 2x2 blocks of the grid
QuadCorners(m) ==
    { r * m.size + c : r \in 0..(m.size - 2), c \in 0..(m.size - 2) }

NextQuad ==
    \E idx \in QuadCorners(meta), single \in SUBSET (1..meta.max_val),
       double \in SUBSET (1..meta.max_val) : CheckQuad(idx, single, double)

SpecQuad == InitQuad /\ [][NextQuad]_vars

(***************************************************************************)
(* Properties.                                                             *)
(***************************************************************************)
\* the other cells of idx's row, column and owning region
Peers(m, idx) ==
    { j \in Cells(m) \ {idx} :
        \/ j \div m.size = idx \div m.size
        \/ j % m.size = idx % m.size
        \/ j \in Range(owning_region(m, idx)) }

NoRepeat(m, b) ==
    \A u \in Range(m.rows) \cup Range(m.columns) \cup Range(m.regions) :
       \A j, k \in Range(u) :
          (j # k /\ Cardinality(b.grid[j]) = 1 /\ b.grid[j] = b.grid[k]) => FALSE

\* C8: whenever solved() is true, every cell holds exactly one digit and no row,
\* column or region repeats a digit.
C8_SolvedIsValid ==
    solved(meta, board) =>
        /\ \A i \in Cells(meta) : Cardinality(board.grid[i]) = 1
        /\ NoRepeat(meta, board)

\* C6: after deduce returns success, running deduce, naked_singles or
\* hidden_singles again changes no cell mask and no solved bit.
C6_DeduceFixedPoint ==
    pc = "ok" =>
        /\ deduce(meta, board).b = board
        /\ naked_singles(meta, board).b = board
        /\ hidden_singles(meta, board).b = board

\* number of candidate bits left on the board
RECURSIVE TotalBits(_, _)
TotalBits(b, cells) ==
    IF cells = {} THEN 0
    ELSE LET c == Min(cells) IN Cardinality(b.grid[c]) + TotalBits(b, cells \ {c})

\* one pass of the deduce loop: masks only shrink, and a return to the naked
\* pass has removed at least one candidate bit
C7_Pass ==
    (pc \in {"naked", "hidden"}) =>
        /\ \A i \in Cells(meta) : board'.grid[i] \subseteq board.grid[i]
        /\ \A i \in Cells(meta) : board'.grid[i] \subseteq start.grid[i]
        /\ pc' \in {"naked", "hidden", "ok", "err"}
        /\ (pc' = "naked") =>
               (TotalBits(board', Cells(meta)) < TotalBits(board, Cells(meta)))

\* C7: deduce never adds a candidate (every pass leaves each cell's mask a subset of
\* what it was) and terminates: every pass ends, and each time the loop goes back to
\* the naked-singles pass the number of candidate bits has strictly decreased.
C7_DeduceMonotoneTerminates ==
    [][C7_Pass]_vars

\* a call that went round the loop (a hidden-singles pass eliminated something),
\* removed candidates and returned
C7_Witness ==
    /\ pc \in {"ok", "err"}
    /\ \E i \in Cells(meta) : board.grid[i] # start.grid[i]
    /\ Cardinality(board.solved) > Cardinality(start.solved) + 1

\* the units a completed grid must respect
Units(m) == Range(m.rows) \cup Range(m.columns) \cup Range(m.regions)

\* the cells before i that share a unit with i
Before(m, i) == { j \in 0..(i - 1) : \E u \in Units(m) : {i, j} \subseteq Range(u) }

RECURSIVE Fill(_, _, _, _)
\* every way to fill cells i, i+1, ... of grid g with candidates of b so that no
\* unit repeats a digit
Fill(m, b, g, i) ==
    IF i = m.size * m.size THEN { g }
    ELSE LET free == { w \in b.grid[i] : \A j \in Before(m, i) : g[j] # w }
         IN UNION { Fill(m, b, [ k \in Cells(m) |-> IF k = i THEN v ELSE g[k] ], i + 1) :
                      v \in free }

\* the valid completed grids consistent with the candidates of b
Completions(m, b) == Fill(m, b, [ i \in Cells(m) |-> 0 ], 0)

\* a yielded board read as a grid of digits (0 where the cell is not one digit)
Digits(m, b) ==
    [ i \in Cells(m) |->
        IF Cardinality(b.grid[i]) = 1 THEN CHOOSE v \in b.grid[i] : TRUE ELSE 0 ]

\* C1: once the iterator has returned None, the boards it yielded all satisfy
\* solved(), are pairwise different, and are exactly the valid completed grids
\* consistent with the candidates of the board it was built on.
C1_IteratorExact ==
    pc = "done" =>
        /\ \A k \in 1..Len(yielded) : solved(meta, yielded[k])
        /\ \A j, k \in 1..Len(yielded) :
              j # k => Digits(meta, yielded[j]) # Digits(meta, yielded[k])
        /\ { Digits(meta, yielded[k]) : k \in 1..Len(yielded) } = Completions(meta, start)

\* an iterator built on a puzzle with clues that yielded several solutions
C1_Witness ==
    /\ pc = "done"
    /\ Len(yielded) >= 2
    /\ start # new_with_regions(meta)

\* C3: true_candidates_dfs returns none exactly when the iterator yielded nothing;
\* otherwise each cell of its result is the union of that cell over all yielded
\* solutions.
C3_DfsIsUnion ==
    (pc = "tc" /\ tc.fn = "dfs") =>
        /\ tc.result.some <=> yielded # << >>
        /\ tc.result.some =>
              \A i \in Cells(meta) :
                 tc.result.board.grid[i] =
                    UNION { yielded[k].grid[i] : k \in 1..Len(yielded) }

\* a dfs result that merged several solutions
C3_Witness ==
    /\ pc = "tc" /\ tc.fn = "dfs"
    /\ tc.result.some
    /\ Len(yielded) >= 2
    /\ \E i \in Cells(meta) : Cardinality(tc.result.board.grid[i]) >= 2

\* two optional puzzles agree: both none, or the same mask at every cell
SameCandidates(m, x, y) ==
    /\ x.some = y.some
    /\ x.some => \A i \in Cells(m) : x.board.grid[i] = y.board.grid[i]

\* C4: true_candidates_bfs and the hybrid true_candidates return what
\* true_candidates_dfs returns, below and above the hybrid's threshold.
C4_BfsHybridEqualDfs ==
    (pc = "tc" /\ tc.fn \in {"bfs", "hybrid"}) =>
        SameCandidates(meta, tc.result, true_candidates_dfs(meta, start))

\* a hybrid call that crossed its threshold and whose breadth-first phase found
\* candidates the merged solutions did not yet have
C4_Witness ==
    /\ pc = "tc" /\ tc.fn = "hybrid"
    /\ tc.limit < Len(yielded)
    /\ \E i \in Cells(meta) :
          tc.result.board.grid[i] #
             UNION { yielded[k].grid[i] : k \in 1..(tc.limit + 1) }

\* C2: when the job's token was never cancelled and solution_count has returned, the
\* values it put on the channel add up to the number of items the SolutionIterator
\* yields for the same board.
C2_CountEqualsIterator ==
    (pc = "count" /\ wpc = "closed" /\ token \notin cancelled) =>
        SumSeq(sent) = Len(solutions(meta, start))

\* a finished, never cancelled job that sent subtotals from inside the search on a
\* puzzle with several solutions
C2_Witness ==
    /\ pc = "count" /\ wpc = "closed" /\ token \notin cancelled
    /\ Len(sent) >= 3
    /\ Len(solutions(meta, start)) >= 4

\* the running total before response k
TotalBefore(k) == IF k = 1 THEN 0 ELSE out[k - 1].count

\* C9: while the token is not cancelled, every response of count_solutions is a
\* Count for the request's nonce; a Count with inProgress carries the previous total
\* plus the partial just received; a Count without inProgress is the last response,
\* carries the final running total, and is there only after the worker has closed the
\* channel and the channel is empty; once count_solutions has returned there is
\* exactly one such terminal Count.
C9_CountMessages ==
    (pc = "count" /\ token \notin cancelled) =>
        /\ \A k \in 1..Len(out) :
              /\ out[k].type = "count"
              /\ out[k].nonce = nonce
              /\ out[k].inProgress =>
                    (k <= Len(sent) /\ out[k].count = TotalBefore(k) + sent[k])
              /\ ~out[k].inProgress =>
                    /\ k = Len(out)
                    /\ rx = "done" /\ wpc = "closed" /\ chan = << >>
                    /\ k = Len(sent) + 1
                    /\ out[k].count = TotalBefore(k)
                    /\ out[k].count = SumSeq(sent)
        /\ rx = "done" => (out # << >> /\ ~out[Len(out)].inProgress)

\* a finished job whose progress messages carried growing totals
C9_Witness ==
    /\ pc = "count" /\ token \notin cancelled
    /\ rx = "done"
    /\ Len(out) >= 3
    /\ out[1].count > 0
    /\ out[2].count > out[1].count

\* C10: for a cancel request that arrived while a count job was running, once its
\* Cancelled response is out the token polled by that job is cancelled, and no
\* terminal Count of the job comes after the Cancelled response.
C10_CancelReachesJob ==
    \A d \in during :
       \A k \in 1..Len(out) :
          (out[k].type = "cancelled" /\ out[k].nonce = d[1]) =>
              /\ d[2] \in cancelled
              /\ \A j \in (k + 1)..Len(out) :
                    ~(out[j].type = "count" /\ ~out[j].inProgress)

\* C11: check_solutions never asks the iterator for more than two solutions and sends
\* nothing while it runs; when it returns with the token never cancelled it has sent
\* exactly one response, Count{nonce, min(number of solutions, 2), inProgress: false};
\* when it returns because it saw the cancelled token it has sent nothing.
C11_CheckReply ==
    /\ pc \in {"check", "checked", "stopped"} => steps <= 2
    /\ pc \in {"check", "stopped"} => out = << >>
    /\ (pc = "checked" /\ token \notin cancelled) =>
          out = << Count(nonce, Min({ Len(solutions(meta, start)), 2 }), FALSE) >>

\* a check that found a single solution and said so after asking twice
C11_Witness ==
    /\ pc = "checked" /\ token \notin cancelled
    /\ steps = 2
    /\ out = << Count(nonce, 1, FALSE) >>

\* the request cannot be served: wrong data type, data that does not decode, or a
\* puzzle that Board::try_from rejects
Fails(m, msg) ==
    \/ msg.dataType # "fpuzzles"
    \/ ~decodes(msg.data)
    \/ ~try_from(m, msg.data.grid).ok

\* C12: a Command request with a wrong data type, with data that does not decode, or
\* with a puzzle that fails Board construction gets exactly one response, Invalid
\* with the request's nonce, and no Count or Cancelled.
C12_InvalidReply ==
    (pc # "new" /\ inbox # << >> /\ Fails(meta, Head(inbox))) =>
        out = << Invalid(Head(inbox).nonce) >>

\* the same for check and count requests only
InvalidReplyCheckCount ==
    (pc # "new" /\ inbox # << >> /\ Fails(meta, Head(inbox))
        /\ Head(inbox).cmd \in { "check", "count" }) =>
        out = << Invalid(Head(inbox).nonce) >>

(***************************************************************************)
(* C13: the order of the solutions.  Search is the depth-first search      *)
(* written as a recursion: at the branching cell the candidates are taken  *)
(* from the highest digit down, and everything found under one candidate   *)
(* comes before anything found under the next.                             *)
(***************************************************************************)
RECURSIVE Descending(_)
Descending(S) ==
    IF S = {} THEN << >>
    ELSE LET top == CHOOSE v \in S : \A w \in S : w <= v
         IN << top >> \o Descending(S \ {top})

RECURSIVE Search(_, _, _), SearchUnder(_, _, _, _)
\* every solution under the deduced, unsolved board b that branches on idx
Search(m, b, idx) == SearchUnder(m, b, idx, Descending(b.grid[idx] \cap (1..m.max_val)))

SearchDeduced(m, d) ==
    IF ~d.ok THEN << >>
    ELSE IF solved(m, d.b) THEN << d.b >>
    ELSE IF next_idx_to_guess(m, d.b) = -1 THEN << >>
    ELSE Search(m, d.b, next_idx_to_guess(m, d.b))

SearchAssigned(m, a) == IF ~a.ok THEN << >> ELSE SearchDeduced(m, deduce(m, a.b))

SearchUnder(m, b, idx, digits) ==
    IF digits = << >> THEN << >>
    ELSE SearchAssigned(m, assign(m, b, idx, { Head(digits) }))
            \o SearchUnder(m, b, idx, Tail(digits))

\* the whole search from a puzzle, as SolutionIterator::new starts it
SearchFrom(m, d) ==
    IF ~d.ok THEN << >>
    ELSE IF next_idx_to_guess(m, d.b) = -1
         THEN IF solved(m, d.b) THEN << d.b >> ELSE << >>
    ELSE Search(m, d.b, next_idx_to_guess(m, d.b))

IsPrefix(s, t) == Len(s) <= Len(t) /\ s = SubSeq(t, 1, Len(s))

\* C13: the items yielded so far are the first items of the depth-first,
\* highest-candidate-first search of the puzzle, and all of them once next
\* has returned None; the sequence is a function of the puzzle alone.
C13_SearchOrder ==
    pc \in {"iter", "done", "tc"} =>
        /\ IsPrefix(yielded, SearchFrom(meta, deduce(meta, start)))
        /\ pc # "iter" => yielded = SearchFrom(meta, deduce(meta, start))

\* the iterator is exhausted after two or more solutions, and the first one
\* carries a higher digit in the first branching cell than the last one
C13_Witness ==
    /\ pc = "done"
    /\ Len(yielded) >= 2
    /\ next_idx_to_guess(meta, deduce(meta, start).b) # -1
    /\ \E v \in yielded[1].grid[next_idx_to_guess(meta, deduce(meta, start).b)] :
          \E w \in yielded[Len(yielded)].grid[next_idx_to_guess(meta, deduce(meta, start).b)] :
              v > w

\* C14: when next has returned None the stack is empty, and every call made
\* after that returns None again, yields nothing more and leaves the stack
\* empty.
C14_NoneStaysNone ==
    /\ pc = "done" => stack = << >>
    /\ pc = "after" =>
          /\ last.op = "next" /\ ~last.ok
          /\ stack = << >>
          /\ yielded = solutions(meta, start)

\* next has been called twice on an iterator that had yielded a solution
\* before it returned None
C14_Witness == pc = "after" /\ steps = 2 /\ Len(yielded) >= 1

\* the iterator has just been built: nothing was asked of it yet
JustBuilt == pc = "iter" /\ yielded = << >> /\ steps = 0

\* the iterator has returned None
Exhausted == pc \in {"done", "after"}

\* the four cases of SolutionIterator::new, told apart on the deduced puzzle d
C15_Cases(d) ==
    /\ ~d.ok =>
          /\ JustBuilt => stack = << >>
          /\ Exhausted => yielded = << >>
    /\ (d.ok /\ next_idx_to_guess(meta, d.b) = -1 /\ solved(meta, d.b)) =>
          /\ JustBuilt => Len(stack) = 1 /\ stack[1].board = d.b
          /\ Exhausted => yielded = << d.b >>
    /\ (d.ok /\ next_idx_to_guess(meta, d.b) = -1 /\ ~solved(meta, d.b)) =>
          /\ JustBuilt => stack = << >>
          /\ Exhausted => yielded = << >>
    /\ (d.ok /\ next_idx_to_guess(meta, d.b) # -1) =>
          (JustBuilt =>
              /\ Len(stack) = 1
              /\ stack[1].board = d.b
              /\ stack[1].idx = next_idx_to_guess(meta, d.b)
              /\ stack[1].values =
                    [ k \in 1..Len(iter_ones(meta, d.b, stack[1].idx)) |->
                        { iter_ones(meta, d.b, stack[1].idx)[k] } ])

\* C15: SolutionIterator::new on puzzle `start`: a failed deduce gives an
\* iterator that yields nothing; a deduced puzzle with no index to guess is
\* yielded as the only item when it is solved and nothing is yielded when it
\* is not; otherwise the stack starts as the one frame (deduced puzzle, chosen
\* index, its guesses).
C15_NewCases == pc \in {"iter", "done", "after"} => C15_Cases(deduce(meta, start))

\* an iterator built on a puzzle that deduce left unsolved with no index to
\* guess has been consumed
C15_Witness ==
    /\ Exhausted
    /\ deduce(meta, start).ok
    /\ next_idx_to_guess(meta, deduce(meta, start).b) = -1
    /\ ~solved(meta, deduce(meta, start).b)

\* the step is a call of lib.rs assign that repeats the successful call before it
RepeatsAssign ==
    /\ steps' = steps + 1
    /\ last.op = "assign" /\ last.ok
    /\ last'.op = "assign" /\ last'.idx = last.idx /\ last'.value = last.value

EliminateExact(b, idx, mask, e) ==
    /\ (b.grid[idx] \cap mask = {}) => e = Res(TRUE, FALSE, b)
    /\ (b.grid[idx] \cap mask # {}) =>
          /\ e.b.grid[idx] = b.grid[idx] \ mask
          /\ \A j \in DOMAIN b.grid : j # idx => e.b.grid[j] = b.grid[j]
          /\ e.b.solved = b.solved /\ e.b.used = b.used
          /\ e.ok = (e.b.grid[idx] # {})
          /\ e.ok => e.elim
    /\ eliminate(e.b, idx, mask) = Res(TRUE, FALSE, e.b)

\* C17: on every board reached by the public mutators, for every cell and
\* every mask: eliminate returns Same and changes nothing when the cell shares
\* no bit with the mask; otherwise it clears the bits of the mask from that cell
\* only and returns Contradiction if the cell became empty and Eliminated if
\* not; the same call made again returns Same and changes nothing.  After a
\* call made through lib.rs eliminate the cell holds no bit of the mask, and is
\* empty exactly when the call returned Contradiction after removing a bit.
C17_EliminateExact ==
    /\ \A idx \in Cells(meta) : \A mask \in SUBSET (0..meta.max_val) :
          EliminateExact(board, idx, mask, eliminate(board, idx, mask))
    /\ (last.op = "eliminate" /\ last.idx \in Cells(meta) /\ last.value <= meta.max_val) =>
          /\ board.grid[last.idx] \cap {last.value} = {}
          /\ ~last.ok => board.grid[last.idx] = {}
          /\ (steps = 1 /\ last.ok) => board.grid[last.idx] # {}

\* the second of two calls was an eliminate that emptied a cell
C17_Witness ==
    /\ steps = 2
    /\ last.op = "eliminate" /\ last.idx \in Cells(meta) /\ ~last.ok
    /\ board.grid[last.idx] = {}

\* cells of b that still have more than one candidate
OpenCells(m, b) == { i \in Cells(m) : Cardinality(b.grid[i]) > 1 }

\* r (-1 for none) is what next_idx_to_guess is said to return on board b
NextIdxExact(m, b, r) ==
    /\ (r = -1) <=> (\A i \in Cells(m) : Cardinality(b.grid[i]) = 1)
    /\ (r # -1) =>
          /\ r \in OpenCells(m, b)
          /\ \A j \in OpenCells(m, b) :
                \/ Cardinality(b.grid[r]) < Cardinality(b.grid[j])
                \/ Cardinality(b.grid[r]) = Cardinality(b.grid[j]) /\ r <= j

\* C18: next_idx_to_guess returns none exactly when every cell has one
\* candidate, and otherwise the smallest index among the cells of minimum
\* candidate count over the cells with more than one candidate; stated of the
\* call SolutionIterator::new makes on the deduced puzzle and of the board of
\* every frame on the stack.
C18_NextIdx ==
    pc \in {"iter", "done", "after"} =>
        /\ deduce(meta, start).ok =>
              NextIdxExact(meta, deduce(meta, start).b,
                           next_idx_to_guess(meta, deduce(meta, start).b))
        /\ \A k \in 1..Len(stack) :
              NextIdxExact(meta, stack[k].board, next_idx_to_guess(meta, stack[k].board))

\* the same statement restricted to boards with max_val = size
NextIdxExactSquare == meta.max_val = meta.size => C18_NextIdx

(***************************************************************************)
(* C19: the Yin-Yang rules stated on coordinates, without the flood fill.  *)
(***************************************************************************)
\* cells i and j are orthogonal neighbours
Orthogonal(yy, i, j) ==
    \/ i \div yy.width = j \div yy.width /\ (i - j = 1 \/ j - i = 1)
    \/ i % yy.width = j % yy.width /\ (i - j = yy.width \/ j - i = yy.width)

\* the cells of C reachable from the cells of S through cells of C
RECURSIVE Reach(_, _, _)
Reach(yy, C, S) ==
    LET N == S \cup { j \in C : \E i \in S : Orthogonal(yy, i, j) }
    IN IF N = S THEN S ELSE Reach(yy, C, N)

\* the cells of the colour form one orthogonally connected group
OneGroup(yy, color) ==
    LET C == { i \in DOMAIN yy.data : yy.data[i] = color }
    IN \A c \in C : Reach(yy, C, {c}) = C

\* some 2x2 block has four cells of one colour
Monochrome(yy) ==
    \E r \in 0..(yy.height - 2), c \in 0..(yy.width - 2) : \E color \in {1, 2} :
        /\ yy.data[r * yy.width + c] = color
        /\ yy.data[r * yy.width + c + 1] = color
        /\ yy.data[(r + 1) * yy.width + c] = color
        /\ yy.data[(r + 1) * yy.width + c + 1] = color

FullyColoured(yy) == \A i \in DOMAIN yy.data : yy.data[i] \in {1, 2}

\* C19: solved() on a fully coloured grid returns true exactly when no 2x2
\* block is monochrome and each colour is one orthogonally connected group;
\* on a grid with an unknown cell it returns false.
C19_SolvedIsRules ==
    last.op = "solved" =>
        last.ok = ( /\ FullyColoured(board)
                    /\ ~Monochrome(board)
                    /\ OneGroup(board, 1)
                    /\ OneGroup(board, 2) )

\* solved() returned true on a grid of three rows that carries both colours
C19_Witness ==
    /\ last.op = "solved" /\ last.ok
    /\ board.height = 3 /\ board.width = 3
    /\ \E i, j \in DOMAIN board.data : board.data[i] = 1 /\ board.data[j] = 2

(***************************************************************************)
(* C20: solution_count_max.                                                *)
(***************************************************************************)
\* values taken from the channel so far
Received == Len(sent) - Len(chan)

\* what holds in every state of a call of solution_count_max
MaxState ==
    pc = "max" =>
        /\ (token \in cancelled) <=> (rcount > last.value)
        /\ rx = "open" => token \notin cancelled
        /\ rcount = SumSeq(SubSeq(sent, 1, Received))
        /\ last.ok <=> rx = "done"
        /\ rx = "done" =>
              /\ chan = << >> /\ wpc = "closed"
              /\ Len(solutions(meta, start)) <= last.value =>
                    rcount = Len(solutions(meta, start))
              /\ Len(solutions(meta, start)) > last.value =>
                    /\ last.value < rcount
                    /\ rcount <= Len(solutions(meta, start))
                    /\ token \in cancelled

Entered(p) ==
    /\ p \in DOMAIN tasks /\ tasks[p].st = "new"
    /\ p \in DOMAIN tasks' /\ tasks'[p].st # "new"

\* with the token cancelled before solution_count was called, only the root
\* call exists, it returns 0, and nothing but zeros went on the channel
PreCancelled ==
    pc = "pre" =>
        /\ DOMAIN tasks = { << >> }
        /\ tasks[<< >>].st \in {"new", "done"} /\ tasks[<< >>].ret = 0
        /\ SumSeq(sent) = 0
        /\ Len(sent) <= 1

\* C21: a call of solution_count_helper entered with the token cancelled
\* returns 0 at once: it starts no branch and puts nothing on the channel; and
\* when the token was cancelled before solution_count was called, the values
\* put on the channel add up to 0.
C21_CancelledBranch ==
    /\ []PreCancelled
    /\ [][ \A p \in DOMAIN tasks :
             (Entered(p) /\ token \in cancelled) =>
                 /\ tasks'[p] = Task("done", NoBoard, -1, 0)
                 /\ DOMAIN tasks' = DOMAIN tasks
                 /\ sent' = sent /\ chan' = chan ]_vars

\* solution_count, called with a cancelled token on a puzzle with several
\* solutions, has returned after putting a 0 on the channel
C21_Witness ==
    /\ pc = "pre" /\ wpc = "closed"
    /\ sent = << 0 >>
    /\ Len(solutions(meta, start)) >= 2

\* the total of the subtotals held by the calls in S
RECURSIVE SumRet(_, _)
SumRet(t, S) ==
    IF S = {} THEN 0
    ELSE LET p == CHOOSE q \in S : TRUE IN t[p].ret + SumRet(t, S \ {p})

\* the calls whose subtotal is still theirs: folded or returned, not yet added
\* up by the parent, and (for the root) not yet handed to solution_count's send
Holding ==
    { p \in DOMAIN tasks :
        /\ tasks[p].st \in {"flush", "full", "done"}
        /\ ~(p = << >> /\ wpc = "closed") }

\* nothing is counted twice: what went on the channel and what the calls still
\* hold never add up to more than the number of solutions
CountedOnce ==
    pc = "count" => SumSeq(sent) + SumRet(tasks, Holding) <= Len(solutions(meta, start))

\* call p leaves its try_send loop in this step
Flushed(p) ==
    /\ p \in DOMAIN tasks /\ tasks[p].st \in {"flush", "full"}
    /\ p \in DOMAIN tasks' /\ tasks'[p].st = "done"

\* C22: in every interleaving, with every channel occupancy and cancellation
\* time, a call whose subtotal is above the threshold never both sends the
\* subtotal and returns it: if the value went on the channel the call returns
\* 0, and it returns the subtotal only when nothing was sent; so the values put
\* on the channel never add up to more than the number of solutions.
C22_SentAtMostOnce ==
    /\ []CountedOnce
    /\ [][ \A p \in DOMAIN tasks :
             Flushed(p) =>
                 /\ sent' # sent => (sent' = Append(sent, tasks[p].ret) /\ tasks'[p].ret = 0)
                 /\ tasks'[p].ret # 0 =>
                       (sent' = sent /\ tasks'[p].ret = tasks[p].ret /\ token \in cancelled) ]_vars

\* after a cancellation one call has returned a subtotal above the threshold
\* unsent while other subtotals had gone on the channel
C22_Witness ==
    /\ pc = "count" /\ token \in cancelled
    /\ sent # << >> /\ SumSeq(sent) > 0
    /\ \E p \in DOMAIN tasks : tasks[p].st = "done" /\ tasks[p].ret > threshold

\* with the token cancelled, a retry loop that polls the token exits: a helper
\* returns, solution_count breaks
RetryExits ==
    token \in cancelled =>
        /\ \A p \in DOMAIN tasks :
              (tasks[p].st = "full" /\ p \in DOMAIN tasks' /\ tasks'[p] # tasks[p])
                  => tasks'[p].st = "done"
        /\ (wpc = "full" /\ wpc' # wpc) => wpc' = "closed"

\* C23: once the token is cancelled solution_count returns, whatever the
\* receiver does (it may leave the channel full for ever): every retry loop
\* that polls the token after the cancellation exits, and the job ends.
C23_ReturnsAfterCancel ==
    /\ [][RetryExits]_vars
    /\ ((pc \in {"count", "pre"} /\ token \in cancelled) ~> (wpc = "closed"))

\* solution_count has returned after a cancellation while the channel was full,
\* the receiver had taken nothing from it, and a subtotal stayed unsent
C23_Witness ==
    /\ pc \in {"count", "pre"} /\ token \in cancelled /\ wpc = "closed"
    /\ rx = "open" /\ chan # << >> /\ Len(chan) = cap /\ chan = sent
    /\ tasks[<< >>].ret > 0

\* a full colouring d of a height x width grid, as a puzzle
Coloured(height, width, d) == [ height |-> height, width |-> width, data |-> d ]

\* the colouring obeys the rules: no monochrome 2x2 block, each colour one
\* orthogonally connected group
Connected(yy, color) ==
    LET C == { i \in DOMAIN yy.data : yy.data[i] = color }
    IN C = {} \/ Reach(yy, C, { Min(C) }) = C

ValidColouring(yy) == ~Monochrome(yy) /\ Connected(yy, 1) /\ Connected(yy, 2)

\* every cell of yy is unknown or has the colour d gives it
Agrees(yy, d) == \A i \in DOMAIN yy.data : yy.data[i] \in {3, d[i]}

\* the valid full colourings that agree with the known cells of yy
ValidCompletions(yy) ==
    { d \in { [ i \in DOMAIN yy.data |-> IF yy.data[i] = 3 THEN f[i] ELSE yy.data[i] ] :
                f \in [ { i \in DOMAIN yy.data : yy.data[i] = 3 } -> {1, 2} ] } :
        ValidColouring(Coloured(yy.height, yy.width, d)) }

\* C24: on a grid with at least two rows and two columns that has a valid
\* completion, deduce returns success and the grid it leaves agrees with every
\* valid completion of the grid it was given: known cells keep their colour and
\* a cell is set only to the colour it has in all valid completions.
C24_DeduceSound ==
    (pc = "deduced" /\ meta.height >= 2 /\ meta.width >= 2) =>
        \A d \in ValidCompletions(start) : last.ok /\ Agrees(board, d)

\* deduce coloured at least two cells of a 3x3 grid that has a valid completion
C24_Witness ==
    /\ pc = "deduced" /\ last.ok /\ last.elim
    /\ meta.height = 3 /\ meta.width = 3
    /\ ValidCompletions(start) # {}
    /\ Cardinality({ i \in DOMAIN board.data : board.data[i] # start.data[i] }) >= 2

\* C25: after deduce returned success the grid is a fixed point of the rules:
\* two_by_two_all, checkerboard_all, deduce_border and deduce itself change no
\* cell of it.
C25_FixedPoint == [][(pc = "deduced" /\ last.ok) => board' = board]_vars

\* cell i lies on the perimeter of the grid
Perimeter(yy, i) ==
    \/ i \div yy.width \in {0, yy.height - 1}
    \/ i % yy.width \in {0, yy.width - 1}

\* how often cell i occurs in the sequence s
Occurs(s, i) == Cardinality({ k \in 1..Len(s) : s[k] = i })

\* the perimeter walked clockwise from the top-left cell: the top row to the
\* right, the right column downwards, the bottom row to the left, the left
\* column upwards
Clockwise(yy) ==
    [ c \in 1..yy.width |-> c - 1 ]
    \o [ r \in 1..(yy.height - 1) |-> r * yy.width + yy.width - 1 ]
    \o (IF yy.height >= 2
        THEN [ c \in 1..(yy.width - 1) |-> (yy.height - 1) * yy.width + yy.width - 1 - c ]
        ELSE << >>)
    \o (IF yy.width >= 2
        THEN [ r \in 1..(yy.height - 2) |-> (yy.height - 1 - r) * yy.width ]
        ELSE << >>)

\* the border holds every perimeter cell once, no other cell, clockwise from
\* the top-left cell
BorderExact(yy) ==
    /\ \A i \in DOMAIN yy.data : Occurs(yy.border, i) = (IF Perimeter(yy, i) THEN 1 ELSE 0)
    /\ yy.border = Clockwise(yy)
    /\ (yy.height >= 2 /\ yy.width >= 2)
          => Len(yy.border) = 2 * yy.height + 2 * yy.width - 4

\* C26: for every grid with at least one row and one column the border built
\* by YinYang::new holds every perimeter cell exactly once and no interior
\* cell, clockwise from the top-left cell, and has 2*height + 2*width - 4
\* entries when both dimensions are at least 2.
C26_Border == BorderExact(board)

\* the same statement for grids with at least two rows and two columns
BorderExactAboveOne == (meta.height >= 2 /\ meta.width >= 2) => BorderExact(board)

\* the interior cells in increasing order
Interior(yy) == SetToSeq({ i \in DOMAIN yy.data : ~Perimeter(yy, i) })

\* C27: indices() returns the border cells in border order followed by the
\* interior cells, so every cell of the grid occurs in it exactly once.
C27_Indices ==
    pc = "indices" =>
        /\ yielded = board.border \o Interior(board)
        /\ \A i \in DOMAIN board.data : Occurs(yielded, i) = 1

\* the cells of the rectangle w wide and h tall whose top-left cell is in row
\* r0 and column c0 of a size x size grid
Rectangle(size, r0, c0, w, h) ==
    { (r0 + y) * size + c0 + x : y \in 0..(h - 1), x \in 0..(w - 1) }

\* the regions are size regions of size cells each that partition the grid,
\* each a rectangle w wide and h tall
DefaultRegions(regions, size, w, h) ==
    /\ w * h = size
    /\ Len(regions) = size
    /\ \A r \in 1..size :
          /\ Len(regions[r]) = size
          /\ Cardinality(Range(regions[r])) = size
          /\ \E r0 \in 0..(size - h), c0 \in 0..(size - w) :
                Range(regions[r]) = Rectangle(size, r0, c0, w, h)
    /\ UNION { Range(regions[r]) : r \in 1..size } = 0..(size * size - 1)
    /\ \A r, q \in 1..size : r # q => Range(regions[r]) \cap Range(regions[q]) = {}

\* C28: for every size from 1 to 16 the default regions are size regions of
\* size cells each that partition the grid, each a rectangle w wide and h tall
\* with (w, h) = DIMENSIONS[size - 1] and w * h = size; for size 0 and for sizes
\* above 16 the result is OutOfBounds.
C28_DefaultRegions ==
    pc = "built" =>
        /\ (last.idx = 0 \/ last.idx > 16) <=> last.err = "OutOfBounds"
        /\ last.ok => DefaultRegions(meta.regions, last.idx,
                                     DIMENSIONS[last.idx][1], DIMENSIONS[last.idx][2])
        /\ (last.idx \in 1..16 /\ last.value >= last.idx) => last.ok

\* a 6x6 board was built: its regions are 3 wide and 2 tall
C28_Witness ==
    /\ pc = "built" /\ last.ok /\ last.idx = 6
    /\ Range(meta.regions[1]) = {0, 1, 2, 6, 7, 8}

\* in how many of the four cells of the block at idx digit d is the solved value
QuadCount(grid, size, idx, d) ==
    Cardinality({ i \in { idx, idx + 1, idx + size, idx + size + 1 } : grid[i] = {d} })

\* C29: on four solved cells check_quad returns true exactly when every digit
\* of single occurs in at least one of the four cells and every digit of double
\* in at least two of them.
C29_CheckQuad ==
    last.op = "check_quad" =>
        last.ok = ( /\ \A d \in last.single : QuadCount(board.grid, meta.size, last.idx, d) >= 1
                    /\ \A d \in last.double : QuadCount(board.grid, meta.size, last.idx, d) >= 2 )

\* check_quad accepted a block in which the digit of double occurs twice and
\* that is not in the top-left corner of its grid
C29_Witness ==
    /\ last.op = "check_quad" /\ last.ok
    /\ last.idx = 4 /\ last.double = {2} /\ last.single = {1}
    /\ QuadCount(board.grid, meta.size, 4, 2) = 2

\* the digits a completed grid uses
DigitsUsed(m, g) == { g[i] : i \in Cells(m) }

\* the valid completions of b on a board that may offer more digits than it has
\* rows: every cell one of its candidates, no digit twice in a row, column or
\* region, at most size different digits in the grid
CompletionsWithin(m, b) ==
    { g \in Completions(m, b) : Cardinality(DigitsUsed(m, g)) <= m.size }

\* this step is a call of deduce
DeduceStep == last'.op = "deduce" /\ steps' = steps + 1

\* C30: on a board built with max_val > size, whenever the board still has a
\* valid completion, deduce returns success and removes no candidate that the
\* completion uses.
C30_DeduceSoundWide ==
    [][ (meta.max_val > meta.size /\ DeduceStep) =>
            \A g \in CompletionsWithin(meta, board) :
                last'.ok /\ \A i \in Cells(meta) : g[i] \in board'.grid[i] ]_vars

\* the same statement on boards built with max_val = size
DeduceSoundSquare ==
    [][ (meta.max_val = meta.size /\ DeduceStep) =>
            \A g \in CompletionsWithin(meta, board) :
                last'.ok /\ \A i \in Cells(meta) : g[i] \in board'.grid[i] ]_vars

====
